---- MODULE Spec2Model ----
(***************************************************************************)
(* A model of the limiga lazy-clause-generation solver                     *)
(* (crates/core, crates/constraints): the CDCL engine with two watched     *)
(* literals, 1-UIP analysis with minimisation, the VSIDS brancher, the     *)
(* interval integer domain and the pseudo-Boolean propagator.              *)
(*                                                                         *)
(* Conventions.  A variable is its code 0, 1, ...; a literal is its code   *)
(* (2v+1 positive, 2v negative).  Rust vectors are TLA+ sequences, so the  *)
(* element at Rust index i is element i+1 here; a ClauseRef, PropagatorId  *)
(* or domain id n is the sequence index n+1.  Option<bool> is one of       *)
(* "None", "True", "False".                                                *)
(***************************************************************************)
EXTENDS Integers, Sequences, FiniteSets, TLC

VARIABLES solver, pc, conflict, analysis, result, given, posted, inst, call

vars == <<solver, pc, conflict, analysis, result, given, posted, inst, call>>

---------------------------------------------------------------------------
(* Bounds of the model. *)

\* Boolean variables of a free CNF instance.
NumVars == 3
\* add_clause calls of a free CNF instance.
MaxClauses == 4
\* Variables of the instance whose learned clause holds an implied literal.
ChainVars == 4
\* Literals in one clause handed to add_clause in a free CNF instance.
MaxClauseLen == 3
\* Conflicts for which the activity increment stays exactly representable.
MaxConflicts == 12
\* Variable numberings of the pigeon-hole instance.
NumPigeonOrders == 3
\* Holes of the pigeon-hole instance; there is one pigeon more.
Holes == 2
\* Plain Boolean variables, integer domains, the greatest domain bound, terms
\* of one linear constraint, posted constraints, clauses and literals of one
\* clause of a CP instance.
CPVars == 3
MaxDomains == 1
MaxBound == 2
MaxTerms == 3
MaxPosts == 1
CPClauses == 1
CPClauseLen == 2
\* Plain Boolean variables of the CP instance over the backjump clauses and of
\* the wide CNF instance; add_clause calls of the wide CNF instance.
WideVars == 5
WideClauses == 2

---------------------------------------------------------------------------
(* Generic helpers. *)

Min2(a, b) == IF a < b THEN a ELSE b

AbsDiff(a, b) == IF a < b THEN b - a ELSE a - b

RECURSIVE Pow2(_)
Pow2(n) == IF n = 0 THEN 1 ELSE 2 * Pow2(n - 1)

Swap(seq, i, j) == [seq EXCEPT ![i] = seq[j], ![j] = seq[i]]

Range(seq) == {seq[i] : i \in 1..Len(seq)}

\* Vec::swap_remove at Rust index idx.
swap_remove(seq, idx) ==
    LET n == Len(seq) IN
    IF idx + 1 = n THEN SubSeq(seq, 1, n - 1)
    ELSE SubSeq([seq EXCEPT ![idx + 1] = seq[n]], 1, n - 1)

---------------------------------------------------------------------------
(* lit.rs *)

positive(v) == 2 * v + 1

negative(v) == 2 * v

is_positive(l) == l % 2 = 1

var(l) == l \div 2

\* A negation that returns the literal itself.
not_identity(l) == l

not(l) == IF l % 2 = 0 THEN l + 1 ELSE l - 1

---------------------------------------------------------------------------
(* Reasons, watches, atoms: records of one shape each. *)

ReasonDecision == [kind |-> "Decision", ref |-> 0, lit |-> 0, expl |-> <<>>]

ReasonClause(cref) == [kind |-> "Clause", ref |-> cref, lit |-> 0, expl |-> <<>>]

from_explanation(lit, explanation) ==
    [kind |-> "Explanation", ref |-> 0, lit |-> lit, expl |-> explanation]

WatchClause(cref) == [kind |-> "Clause", a |-> cref, b |-> 0]

WatchPropagator(id) == [kind |-> "Propagator", a |-> id, b |-> 0]

WatchDomainEvent(d, ev) == [kind |-> "DomainEvent", a |-> d, b |-> ev]

AtomLit(l) == [kind |-> "Lit", d |-> 0, v |-> l]

AtLeast(d, bound) == [kind |-> "AtLeast", d |-> d, v |-> bound]

AtMost(d, bound) == [kind |-> "AtMost", d |-> d, v |-> bound]

\* IntEvent, as indices of the per-event watch lists.
LowerBound == 1

UpperBound == 2

---------------------------------------------------------------------------
(* The solver after Solver::new(VsidsBrancher::new(decay)). *)

\* The fixed-point value that stands for the activity 1.0.  The decay factor of
\* the model is 1/2, so the increment after k conflicts is ActivityOne / 2^k.
ActivityOne == Pow2(MaxConflicts)

DecayDen == 2

NewBrancher ==
    [heap |-> <<>>, position |-> <<>>, activities |-> <<>>,
     activity_increment |-> ActivityOne]

NewSolver ==
    [next_var_code |-> 0,
     assignment |-> <<>>,
     trail |-> <<>>,
     trail_delim |-> <<>>,
     reasons |-> <<>>,
     decided_at |-> <<>>,
     current_depth |-> 0,
     clauses |-> <<>>,
     kinds |-> <<>>,
     watch_list |-> <<>>,
     event_watches |-> <<<<>>, <<>>>>,
     state |-> "Consistent",
     next_propagation_idx |-> 0,
     propagators |-> <<>>,
     queue |-> <<>>,
     present |-> <<>>,
     domains |-> <<>>,
     brancher |-> NewBrancher,
     panic |-> "none"]

Panic(s, msg) == IF s.panic = "none" THEN [s EXCEPT !.panic = msg] ELSE s

---------------------------------------------------------------------------
(* Assignment: value / assign / unassign. *)

value(s, lit) ==
    LET a == s.assignment[var(lit) + 1] IN
    IF a = "U" THEN "None"
    ELSE IF (a = "T") = is_positive(lit) THEN "True" ELSE "False"

assign(s, lit) ==
    [s EXCEPT !.assignment[var(lit) + 1] = IF is_positive(lit) THEN "T" ELSE "F"]

unassign(s, lit) == [s EXCEPT !.assignment[var(lit) + 1] = "U"]

is_unassigned(s, lit) == value(s, lit) = "None"

---------------------------------------------------------------------------
(* brancher.rs: VsidsBrancher.  position is -1 for None. *)

RECURSIVE sift_up(_, _, _)
sift_up(b, v, pos) ==
    IF pos = 0 THEN b
    ELSE LET parent_pos == (pos - 1) \div 2
             parent_var == b.heap[parent_pos + 1]
         IN IF b.activities[parent_var + 1] >= b.activities[v + 1] THEN b
            ELSE sift_up([b EXCEPT !.position[v + 1] = parent_pos,
                                   !.heap[parent_pos + 1] = v,
                                   !.position[parent_var + 1] = pos,
                                   !.heap[pos + 1] = parent_var],
                         v, parent_pos)

\* A repair of the heap that leaves the moved variable at the root.
sift_down_nothing(b, v, pos) == b

RECURSIVE sift_down(_, _, _)
sift_down(b, v, pos) ==
    LET left_pos == pos * 2 + 1
        right_pos == pos * 2 + 2
        l1 == IF left_pos < Len(b.heap)
                 /\ b.activities[v + 1] < b.activities[b.heap[left_pos + 1] + 1]
              THEN [p |-> left_pos, v |-> b.heap[left_pos + 1]]
              ELSE [p |-> pos, v |-> v]
        l2 == IF right_pos < Len(b.heap)
                 /\ b.activities[l1.v + 1] < b.activities[b.heap[right_pos + 1] + 1]
              THEN [p |-> right_pos, v |-> b.heap[right_pos + 1]]
              ELSE l1
    IN IF l2.p = pos THEN b
       ELSE sift_down([b EXCEPT !.position[v + 1] = l2.p,
                                !.heap[l2.p + 1] = v,
                                !.position[l2.v + 1] = pos,
                                !.heap[pos + 1] = l2.v],
                      v, l2.p)

on_variable_unassigned(b, v) ==
    IF b.position[v + 1] = -1
    THEN LET p == Len(b.heap)
             b1 == [b EXCEPT !.position[v + 1] = p, !.heap = Append(@, v)]
         IN sift_up(b1, v, p)
    ELSE b

on_new_var(b, v) ==
    on_variable_unassigned(
        [b EXCEPT !.activities = Append(@, 0), !.position = Append(@, -1)], v)

\* The rescaling above 1e100 is out of reach of the activities of the model.
on_variable_activated(b, v) ==
    LET b1 == [b EXCEPT !.activities[v + 1] = @ + b.activity_increment]
    IN IF b1.position[v + 1] # -1 THEN sift_up(b1, v, b1.position[v + 1]) ELSE b1

on_conflict(b) == [b EXCEPT !.activity_increment = @ \div DecayDen]

\* Vec::swap_remove(0) followed by the repair of the heap.
HeapRemoveTop(b) ==
    LET v == b.heap[1]
        n == Len(b.heap)
        h1 == IF n = 1 THEN <<>> ELSE <<b.heap[n]>> \o SubSeq(b.heap, 2, n - 1)
        b1 == [b EXCEPT !.heap = h1]
        b2 == IF h1 # <<>>
              THEN sift_down([b1 EXCEPT !.position[h1[1] + 1] = 0], h1[1], 0)
              ELSE b1
    IN [b2 EXCEPT !.position[v + 1] = -1]

\* Returns the brancher and the decision, -1 for None.
RECURSIVE next_decision(_, _)
next_decision(b, s) ==
    IF b.heap = <<>> THEN [brancher |-> b, lit |-> -1]
    ELSE LET v == b.heap[1]
             Popped(b1) == IF is_unassigned(s, positive(v))
                           THEN [brancher |-> b1, lit |-> positive(v)]
                           ELSE next_decision(b1, s)
         IN Popped(HeapRemoveTop(b))

---------------------------------------------------------------------------
(* solver.rs: new_lits, enqueue, watch_clause, backtrack_to. *)

\* One item of NewLitIterator, with the growth its drop performs.
new_lit(s) ==
    LET v == s.next_var_code IN
    [s EXCEPT !.brancher = on_new_var(@, v),
              !.next_var_code = @ + 1,
              !.assignment = Append(@, "U"),
              !.reasons = Append(@, ReasonDecision),
              !.decided_at = Append(@, 0),
              !.watch_list = @ \o <<<<>>, <<>>>>]

RECURSIVE new_lits(_, _)
new_lits(s, n) == IF n = 0 THEN s ELSE new_lits(new_lit(s), n - 1)

TrailEnqueue(s, lit, reason) ==
    LET s1 == [s EXCEPT !.trail = Append(@, lit),
                        !.reasons[var(lit) + 1] = reason,
                        !.decided_at[var(lit) + 1] = s.current_depth]
    IN assign(s1, lit)

enqueue(s, lit, reason) ==
    IF value(s, lit) = "False" THEN [s |-> s, ok |-> FALSE]
    ELSE [s |-> TrailEnqueue(s, lit, reason), ok |-> TRUE]

PushWatch(s, lit, w) == [s EXCEPT !.watch_list[lit + 1] = Append(@, w)]

\* A clause database that registers no watch for the clause.
watch_nothing(s, cref) == s

watch_clause(s, cref) ==
    PushWatch(PushWatch(s, s.clauses[cref][1], WatchClause(cref)),
              s.clauses[cref][2], WatchClause(cref))

\* Trail::backtrack_to with a closure that does not notify the brancher.
RECURSIVE UnassignSilently(_, _, _)
UnassignSilently(s, i, target_len) ==
    IF i > 0 /\ i > target_len
    THEN UnassignSilently(unassign(s, s.trail[i]), i - 1, target_len)
    ELSE s

\* The for_each over the BacktrackingIterator: trail positions i, i-1, ...,
\* down to target_len + 1.
RECURSIVE UnassignDownTo(_, _, _)
UnassignDownTo(s, i, target_len) ==
    IF i > 0 /\ i > target_len
    THEN LET lit == s.trail[i]
             s1 == unassign(s, lit)
         IN UnassignDownTo(
                [s1 EXCEPT !.brancher = on_variable_unassigned(@, var(lit))],
                i - 1, target_len)
    ELSE s

backtrack_to(s, decision_level) ==
    LET target_len == s.trail_delim[decision_level + 1]
        Truncated(s1) ==
            [s1 EXCEPT !.trail = SubSeq(@, 1, Min2(target_len, Len(@))),
                       !.trail_delim = SubSeq(@, 1, decision_level),
                       !.current_depth = decision_level,
                       !.next_propagation_idx = Min2(target_len, Len(s1.trail))]
    IN Truncated(UnassignDownTo(s, Len(s.trail), target_len))

---------------------------------------------------------------------------
(* preprocessor.rs and Solver::add_clause. *)

RECURSIVE dedup(_)
dedup(seq) ==
    IF Len(seq) <= 1 THEN seq
    ELSE LET rest == dedup(Tail(seq))
         IN IF seq[1] = rest[1] THEN rest ELSE <<seq[1]>> \o rest

\* preprocess without the sort of the buffer.
preprocess_unsorted(lits, s) ==
    LET buffer == dedup(lits)
        hit(i) == \/ value(s, buffer[i]) = "True"
                  \/ i < Len(buffer) /\ buffer[i] = not(buffer[i + 1])
    IN IF \E i \in 1..Len(buffer) : hit(i)
       THEN [sat |-> TRUE, lits |-> <<>>]
       ELSE [sat |-> FALSE, lits |-> buffer]

\* Lits(buffer) is [sat |-> FALSE, lits |-> buffer].
preprocess(lits, s) ==
    LET buffer == dedup(SortSeq(lits, LAMBDA a, b : a < b))
        hit(i) == \/ value(s, buffer[i]) = "True"
                  \/ i < Len(buffer) /\ buffer[i] = not(buffer[i + 1])
    IN IF \E i \in 1..Len(buffer) : hit(i)
       THEN [sat |-> TRUE, lits |-> <<>>]
       ELSE [sat |-> FALSE, lits |-> buffer]

db_add_clause(s, lits, kind) ==
    IF Len(lits) > 1
    THEN [s EXCEPT !.clauses = Append(@, lits), !.kinds = Append(@, kind)]
    ELSE Panic(s, "The clause db cannot add the empty clause or a unit clause.")

\* add_clause without the early return in the root-conflict state.
add_clause_past_conflict(s, lits) ==
    LET Unit(e) == IF e.ok THEN e.s ELSE [s EXCEPT !.state = "ConflictAtRoot"]
        Watched(s1) == watch_clause(s1, Len(s1.clauses))
        Processed(p) ==
            IF p.sat THEN s
            ELSE IF p.lits = <<>> THEN [s EXCEPT !.state = "ConflictAtRoot"]
            ELSE IF Len(p.lits) > 1
                 THEN Watched(db_add_clause(s, p.lits, "original"))
            ELSE Unit(enqueue(s, p.lits[1], ReasonDecision))
    IN Processed(preprocess(lits, s))

add_clause(s, lits) ==
    IF s.state = "ConflictAtRoot" THEN s
    ELSE LET Unit(e) == IF e.ok THEN e.s ELSE [s EXCEPT !.state = "ConflictAtRoot"]
             Watched(s1) == watch_clause(s1, Len(s1.clauses))
             Processed(p) ==
                IF p.sat THEN s
                ELSE IF p.lits = <<>> THEN [s EXCEPT !.state = "ConflictAtRoot"]
                ELSE IF Len(p.lits) > 1
                     THEN Watched(db_add_clause(s, p.lits, "original"))
                ELSE Unit(enqueue(s, p.lits[1], ReasonDecision))
         IN Processed(preprocess(lits, s))

---------------------------------------------------------------------------
(* integer/interval_domain.rs, integer/atoms.rs, propagation/reason.rs. *)

\* IntInterval::literal: the index is taken relative to the current lower bound.
literal(dom, v) ==
    dom.literals[Min2(AbsDiff(v, dom.lower_bound), Len(dom.literals) - 1) + 1]

upper_bound_lit(dom, bound) == not(literal(dom, bound + 1))

lower_bound_lit(dom, bound) == literal(dom, bound)

as_lit(atom, s) ==
    CASE atom.kind = "Lit" -> atom.v
      [] atom.kind = "AtLeast" -> lower_bound_lit(s.domains[atom.d], atom.v)
      [] atom.kind = "AtMost" -> upper_bound_lit(s.domains[atom.d], atom.v)

as_clause(reason, s) ==
    CASE reason.kind = "Decision" -> <<>>
      [] reason.kind = "Clause" -> s.clauses[reason.ref]
      [] reason.kind = "Explanation" ->
            <<reason.lit>> \o [i \in 1..Len(reason.expl) |-> not(as_lit(reason.expl[i], s))]

\* The clauses IntIntervalFactory::create posts for a domain.
ChannelClauses(dom) ==
    [i \in 1..(dom.upper_bound - dom.lower_bound) |->
        <<not(literal(dom, dom.lower_bound + i)), literal(dom, dom.lower_bound + i - 1)>>]
    \o <<<<not(literal(dom, dom.upper_bound + 1))>>, <<literal(dom, dom.lower_bound)>>>>

RECURSIVE AddClauses(_, _)
AddClauses(s, cs) == IF cs = <<>> THEN s ELSE AddClauses(add_clause(s, Head(cs)), Tail(cs))

\* The field origin is not part of IntInterval: it remembers the lower bound
\* at creation, so that properties can name the literal of a value.
NewInterval(s, lo, hi) ==
    LET n == AbsDiff(hi, lo) + 2 IN
    [lower_bound |-> lo, upper_bound |-> hi, origin |-> lo,
     literals |-> [i \in 1..n |-> positive(s.next_var_code + i - 1)]]

\* Solver::new_domain with IntInterval::factory(lo, hi).
new_domain(s, lo, hi) ==
    LET dom == NewInterval(s, lo, hi)
        s1 == new_lits(s, Len(dom.literals))
        s2 == AddClauses(s1, ChannelClauses(dom))
    IN [s2 EXCEPT !.domains = Append(@, dom)]

\* PropositionalState::enqueue.  err carries Conflict {lit, explanation}.
state_enqueue(s, lit, explanation) ==
    IF value(s, lit) = "False"
    THEN [s |-> s, err |-> TRUE, lit |-> lit, expl |-> explanation]
    ELSE [s |-> TrailEnqueue(s, lit, from_explanation(lit, explanation)),
          err |-> FALSE, lit |-> lit, expl |-> explanation]

CheckBounds(s, d) ==
    IF s.domains[d].lower_bound <= s.domains[d].upper_bound THEN s
    ELSE Panic(s, "assertion failed: self.lower_bound <= self.upper_bound")

set_min(s, d, bound, explanation) ==
    LET dom == s.domains[d]
        Enqueued(e) ==
            IF e.err THEN e
            ELSE [e EXCEPT !.s = CheckBounds([e.s EXCEPT !.domains[d].lower_bound = bound], d)]
    IN IF bound > dom.lower_bound
       THEN Enqueued(state_enqueue(s, literal(dom, bound), explanation))
       ELSE [s |-> CheckBounds(s, d), err |-> FALSE, lit |-> 0, expl |-> <<>>]

set_max(s, d, bound, explanation) ==
    LET dom == s.domains[d]
        Enqueued(e) ==
            IF e.err THEN e
            ELSE [e EXCEPT !.s = CheckBounds([e.s EXCEPT !.domains[d].upper_bound = bound], d)]
    IN IF bound < dom.upper_bound
       THEN Enqueued(state_enqueue(s, not(literal(dom, bound + 1)), explanation))
       ELSE [s |-> CheckBounds(s, d), err |-> FALSE, lit |-> 0, expl |-> <<>>]

---------------------------------------------------------------------------
(* propagation/queue.rs, propagation/watch_list.rs, bool_lin_leq.rs. *)

\* PropagatorQueue::grow_to: the bit vector resized to the index of the id plus one.
grow_to(s, id) ==
    [s EXCEPT !.present =
        [i \in 1..id |-> IF i <= Len(s.present) THEN s.present[i] ELSE FALSE]]

\* A push without the membership test.
queue_push_always(s, id) ==
    [s EXCEPT !.present[id] = TRUE, !.queue = Append(@, id)]

queue_push(s, id) ==
    IF ~s.present[id]
    THEN [s EXCEPT !.present[id] = TRUE, !.queue = Append(@, id)]
    ELSE s

\* Vec::pop takes the last element.
queue_pop(s) ==
    LET id == s.queue[Len(s.queue)] IN
    [s |-> [s EXCEPT !.queue = SubSeq(@, 1, Len(@) - 1), !.present[id] = FALSE],
     id |-> id]

\* Watchable for Lit, with LitEvent::FixedTrue or LitEvent::FixedFalse.
watch_lit(s, lit, id, event) ==
    IF event = "FixedTrue" THEN PushWatch(s, lit, WatchPropagator(id))
    ELSE PushWatch(s, not(lit), WatchPropagator(id))

\* Watchable for DomainId.
watch_domain(s, d, id, event) == [s EXCEPT !.event_watches[event] = Append(@, id)]

RECURSIVE RegisterLits(_, _, _, _)
RegisterLits(s, x, i, id) ==
    IF i > Len(x) THEN s
    ELSE RegisterLits(watch_lit(s, x[i], id, "FixedTrue"), x, i + 1, id)

\* Solver::add_propagator with LinearBoolFactory {x, y}.
add_propagator(s, x, y) ==
    LET id == Len(s.propagators) + 1
        s1 == grow_to(s, id)
        s2 == RegisterLits(s1, x, 1, id)
        s3 == watch_domain(s2, y, id, UpperBound)
    IN [s3 EXCEPT !.propagators =
            Append(@, [kind |-> "LinearBool", x |-> x, y |-> y, terms |-> <<>>, rhs |-> 0])]

bool_lin_leq(s, x, y) == add_propagator(s, x, y)

bool_lin_eq(s, x, y) ==
    LET neg_x == [i \in 1..Len(x) |-> not(x[i])]
    IN bool_lin_leq(bool_lin_leq(s, x, y), neg_x, y)

RECURSIVE RegisterTerms(_, _, _, _)
RegisterTerms(s, terms, i, id) ==
    IF i > Len(terms) THEN s
    ELSE RegisterTerms(watch_domain(s, terms[i], id, LowerBound), terms, i + 1, id)

\* linear_leq: Solver::add_propagator with LinearLeqFactory {terms, rhs}.
linear_leq(s, terms, rhs) ==
    LET id == Len(s.propagators) + 1
        s1 == grow_to(s, id)
        s2 == RegisterTerms(s1, terms, 1, id)
    IN [s2 EXCEPT !.propagators =
            Append(@, [kind |-> "LinearLeq", x |-> <<>>, y |-> 0, terms |-> terms, rhs |-> rhs])]

\* The sum of term.min(ctx) over the terms i.. of the constraint.
RECURSIVE SumMin(_, _, _)
SumMin(s, terms, i) ==
    IF i > Len(terms) THEN 0
    ELSE s.domains[terms[i]].lower_bound + SumMin(s, terms, i + 1)

\* The for loop of LinearLeq::propagate at Rust index idx, and the todo!() that
\* follows it.  explanation_base is as it was before the loop at the start of
\* every iteration.
RECURSIVE LeqLoop(_, _, _, _, _)
LeqLoop(s, p, idx, optimistic_lhs, explanation_base) ==
    IF idx >= Len(p.terms)
    THEN [s |-> Panic(s, "not yet implemented"), err |-> FALSE, lit |-> 0, expl |-> <<>>]
    ELSE LET term == p.terms[idx + 1]
             term_lb == s.domains[term].lower_bound
             new_max == p.rhs - optimistic_lhs - term_lb
             explanation == swap_remove(explanation_base, idx)
             Tightened(r) ==
                IF r.err \/ r.s.panic # "none" THEN r
                ELSE LeqLoop(r.s, p, idx + 1, optimistic_lhs, explanation_base)
         IN Tightened(set_max(s, term, new_max, explanation))

\* LinearLeq::propagate.
linear_leq_propagate(s, p) ==
    LeqLoop(s, p, 0, SumMin(s, p.terms, 1),
            [i \in 1..Len(p.terms) |->
                AtLeast(p.terms[i], s.domains[p.terms[i]].lower_bound)])

\* The loop of LinearBool::propagate that fixes the unassigned x_i to false.
RECURSIVE AssignRemaining(_, _, _, _)
AssignRemaining(s, x, i, reason) ==
    IF i > Len(x) THEN s
    ELSE IF value(s, x[i]) = "None"
         THEN LET Enqueued(e) ==
                      IF e.err THEN Panic(s, "these assignments can all be made")
                      ELSE AssignRemaining(e.s, x, i + 1, reason)
              IN Enqueued(state_enqueue(s, not(x[i]), reason))
         ELSE AssignRemaining(s, x, i + 1, reason)

\* LinearBool::propagate.
linear_bool_propagate(s, p) ==
    LET true_lits == SelectSeq(p.x, LAMBDA l : value(s, l) = "True")
        expl == [i \in 1..Len(true_lits) |-> AtomLit(true_lits[i])]
        fixed_true_count == Len(true_lits)
        Bounded(m) ==
            IF m.err \/ m.s.panic # "none" THEN m
            ELSE LET y_max == m.s.domains[p.y].upper_bound IN
                 IF fixed_true_count = y_max
                 THEN [m EXCEPT !.s = AssignRemaining(m.s, p.x, 1,
                                                      <<AtMost(p.y, y_max)>> \o expl)]
                 ELSE m
    IN Bounded(set_min(s, p.y, fixed_true_count, expl))

\* Solver::create_conflict_clause: the state and the reference of the new clause.
create_conflict_clause(s, c) ==
    LET other_reason == s.reasons[var(c.lit) + 1]
        expl_lits == [i \in 1..Len(c.expl) |-> as_lit(c.expl[i], s)]
        other == CASE other_reason.kind = "Decision" -> <<>>
                   [] other_reason.kind = "Clause" -> s.clauses[other_reason.ref]
                   [] other_reason.kind = "Explanation" ->
                        [i \in 1..Len(other_reason.expl) |-> as_lit(other_reason.expl[i], s)]
        lits == [i \in 1..(Len(expl_lits) + Len(other)) |-> not((expl_lits \o other)[i])]
        Added(s1) == [s |-> s1, conflict |-> Len(s1.clauses)]
    IN Added(IF value(s, c.lit) = "False" THEN db_add_clause(s, lits, "explanation")
             ELSE Panic(s, "assertion failed: conflict literal is false"))

\* propagator.propagate(&mut ctx) of Solver::propagate_propagator, dispatched
\* on the propagator behind the id.
propagator_propagate(s, id) ==
    IF s.propagators[id].kind = "LinearLeq"
    THEN linear_leq_propagate(s, s.propagators[id])
    ELSE linear_bool_propagate(s, s.propagators[id])

\* Solver::propagate_propagator: conflict is 0 for Ok.
propagate_propagator(s, id) ==
    LET Propagated(r) ==
            IF r.err THEN create_conflict_clause(r.s, r) ELSE [s |-> r.s, conflict |-> 0]
    IN Propagated(propagator_propagate(s, id))

---------------------------------------------------------------------------
(* solver.rs: Boolean propagation and the propagation fix-point. *)

\* The first position 3.. of the clause (Rust index 2..) that is not false, 0 if none.
NewWatchIdx(s, clause) ==
    LET cand == {i \in 3..Len(clause) : value(s, clause[i]) # "False"}
    IN IF cand = {} THEN 0 ELSE CHOOSE i \in cand : \A j \in cand : i <= j

propagate_clause(s, cref, false_lit) ==
    LET c0 == s.clauses[cref]
        c1 == IF c0[1] = false_lit THEN Swap(c0, 1, 2) ELSE c0
        s1 == [s EXCEPT !.clauses[cref] = c1]
        idx == NewWatchIdx(s1, c1)
    IN IF value(s1, c1[1]) = "True"
       THEN [s |-> PushWatch(s1, false_lit, WatchClause(cref)), ok |-> TRUE]
       ELSE IF idx # 0
       THEN LET c2 == Swap(c1, 2, idx)
            IN [s |-> PushWatch([s1 EXCEPT !.clauses[cref] = c2], c2[2], WatchClause(cref)),
                ok |-> TRUE]
       ELSE enqueue(PushWatch(s1, false_lit, WatchClause(cref)), c1[1], ReasonClause(cref))

RECURSIVE PushAll(_, _, _)
PushAll(s, ids, i) == IF i > Len(ids) THEN s ELSE PushAll(queue_push(s, ids[i]), ids, i + 1)

\* A conflict that copies no watch back.
copy_back_nothing(s, watches, i, false_lit) == s

\* The watches i+1.. that a conflict at watch i copies back.
RECURSIVE CopyBack(_, _, _, _)
CopyBack(s, watches, i, false_lit) ==
    IF i > Len(watches) THEN s
    ELSE CopyBack(PushWatch(s, false_lit, watches[i]), watches, i + 1, false_lit)

\* The inner loop of propagate_propositional over the taken watches.
RECURSIVE ProcessWatches(_, _, _, _)
ProcessWatches(s, watches, i, false_lit) ==
    IF i > Len(watches) THEN [s |-> s, conflict |-> 0]
    ELSE LET w == watches[i]
             Clause(p) == [s |-> p.s, conflict |-> IF p.ok THEN 0 ELSE w.a]
             Handled(r) ==
                IF r.conflict # 0
                THEN [s |-> [CopyBack(r.s, watches, i + 1, false_lit)
                                EXCEPT !.next_propagation_idx = Len(r.s.trail)],
                      conflict |-> r.conflict]
                ELSE ProcessWatches(r.s, watches, i + 1, false_lit)
         IN Handled(CASE w.kind = "Clause" -> Clause(propagate_clause(s, w.a, false_lit))
                      [] w.kind = "Propagator" ->
                            [s |-> queue_push(s, w.a), conflict |-> 0]
                      [] w.kind = "DomainEvent" ->
                            [s |-> PushAll(s, s.event_watches[w.b], 1), conflict |-> 0])

RECURSIVE propagate_propositional(_)
propagate_propositional(s) ==
    IF s.next_propagation_idx < Len(s.trail)
    THEN LET trail_lit == s.trail[s.next_propagation_idx + 1]
             false_lit == not(trail_lit)
             watches == s.watch_list[false_lit + 1]
             s1 == [s EXCEPT !.next_propagation_idx = @ + 1,
                             !.watch_list[false_lit + 1] = <<>>]
             Visited(r) == IF r.conflict # 0 THEN r ELSE propagate_propositional(r.s)
         IN Visited(ProcessWatches(s1, watches, 1, false_lit))
    ELSE [s |-> s, conflict |-> 0]

\* The while-let loop of Solver::propagate.
RECURSIVE PropagatorLoop(_)
PropagatorLoop(s) ==
    IF s.queue = <<>> THEN [s |-> s, conflict |-> 0]
    ELSE LET Channeled(r2) == IF r2.conflict # 0 THEN r2 ELSE PropagatorLoop(r2.s)
             Propagated(r1) == IF r1.conflict # 0 \/ r1.s.panic # "none" THEN r1
                               ELSE Channeled(propagate_propositional(r1.s))
             Popped(q) == Propagated(propagate_propagator(q.s, q.id))
         IN Popped(queue_pop(s))

propagate(s) ==
    LET Channeled(r) == IF r.conflict # 0 THEN r ELSE PropagatorLoop(r.s)
    IN Channeled(propagate_propositional(s))

---------------------------------------------------------------------------
(* analysis.rs: ConflictAnalyzer.  The analyzer state a holds buffer,          *)
(* current_level_count (count), seen (the variables flagged), to_clear, the    *)
(* brancher it notifies, and the message of a tripped assertion.               *)

\* add_literal keeping the literals of the conflict level in the clause too.
add_literal_keep_current(a, s, lit) ==
    LET v == var(lit) IN
    IF s.decided_at[v + 1] > 0 /\ v \notin a.seen
    THEN LET a1 == [a EXCEPT !.seen = @ \cup {v},
                             !.to_clear = Append(@, v),
                             !.buffer = Append(@, lit),
                             !.brancher = on_variable_activated(@, v)]
         IN IF s.decided_at[v + 1] = s.current_depth
            THEN [a1 EXCEPT !.count = @ + 1]
            ELSE a1
    ELSE a

add_literal(a, s, lit) ==
    LET v == var(lit) IN
    IF s.decided_at[v + 1] > 0 /\ v \notin a.seen
    THEN LET a1 == [a EXCEPT !.seen = @ \cup {v},
                             !.to_clear = Append(@, v),
                             !.brancher = on_variable_activated(@, v)]
         IN IF s.decided_at[v + 1] = s.current_depth
            THEN [a1 EXCEPT !.count = @ + 1]
            ELSE [a1 EXCEPT !.buffer = Append(@, lit)]
    ELSE a

RECURSIVE AddLiterals(_, _, _, _)
AddLiterals(a, s, lits, i) ==
    IF i > Len(lits) THEN a ELSE AddLiterals(add_literal(a, s, lits[i]), s, lits, i + 1)

\* The loop of analyze over trail.iter().rev(), at trail position i.
RECURSIVE Resolve(_, _, _)
Resolve(a, s, i) ==
    IF i = 0 THEN a
    ELSE IF a.count = 0
    THEN [a EXCEPT !.panic =
            "At least one literal has to have been assigned at the current decision level."]
    ELSE LET lit == s.trail[i] IN
         IF var(lit) \notin a.seen THEN Resolve(a, s, i - 1)
         ELSE IF a.count = 1
         THEN [a EXCEPT !.count = 0,
                        !.buffer = Swap(Append(@, not(lit)), 1, Len(@) + 1)]
         ELSE LET Resolved(reason) ==
                     IF reason = <<>> \/ reason[1] # lit
                     THEN [a EXCEPT !.panic =
                             "the propagated literal is at the first position in the clause"]
                     ELSE Resolve(AddLiterals([a EXCEPT !.count = @ - 1], s, reason, 2),
                                  s, i - 1)
              IN Resolved(as_clause(s.reasons[var(lit) + 1], s))

\* The for loop over one reason inside the DFS; d is [a, stack, abort].
RECURSIVE VisitReason(_, _, _, _)
VisitReason(d, s, reason_lits, j) ==
    IF j > Len(reason_lits) THEN d
    ELSE LET reason_lit == reason_lits[j]
             v == var(reason_lit)
         IN IF v \notin d.a.seen /\ s.decided_at[v + 1] > 0
            THEN IF s.reasons[v + 1].kind = "Decision"
                 THEN [d EXCEPT !.abort = TRUE]
                 ELSE VisitReason(
                        [d EXCEPT !.a.seen = @ \cup {v},
                                  !.a.to_clear = Append(@, v),
                                  !.stack = Append(@, not(reason_lit))],
                        s, reason_lits, j + 1)
            ELSE VisitReason(d, s, reason_lits, j + 1)

RECURSIVE Dfs(_, _)
Dfs(d, s) ==
    IF d.stack = <<>> THEN d
    ELSE LET lit == d.stack[Len(d.stack)]
             d1 == [d EXCEPT !.stack = SubSeq(@, 1, Len(@) - 1)]
             Visited(d2) == IF d2.abort THEN d2 ELSE Dfs(d2, s)
         IN Visited(VisitReason(d1, s, as_clause(s.reasons[var(lit) + 1], s), 1))

\* Resets the flags set since the high-water mark top.
Rollback(a, top) ==
    [a EXCEPT !.seen = @ \ {a.to_clear[k] : k \in (top + 1)..Len(a.to_clear)},
              !.to_clear = SubSeq(@, 1, top)]

\* A minimisation that removes every literal but the asserting one.
minimize_to_unit(a, s, idx) == [a EXCEPT !.buffer = SubSeq(@, 1, 1)]

\* A minimisation that removes the last literal without a search.
minimize_drop_last(a, s, idx) ==
    [a EXCEPT !.buffer = IF Len(@) >= 2 THEN SubSeq(@, 1, Len(@) - 1) ELSE @]

\* minimize_clause, with idx the Rust index of the literal handled last.
RECURSIVE minimize_clause(_, _, _)
minimize_clause(a, s, idx) ==
    IF idx + 1 < Len(a.buffer)
    THEN LET i == idx + 1
             lit == a.buffer[i + 1]
         IN IF s.reasons[var(lit) + 1].kind = "Decision" THEN minimize_clause(a, s, i)
            ELSE LET Searched(d) ==
                        minimize_clause(
                            IF d.abort THEN Rollback(d.a, Len(a.to_clear))
                            ELSE [d.a EXCEPT !.buffer = swap_remove(@, i)], s, i)
                 IN Searched(Dfs([a |-> a, stack |-> <<not(lit)>>, abort |-> FALSE], s))
    ELSE a

\* The first candidate instead of the one of the greatest level.
FirstLevelIdx(buffer, s) ==
    IF Len(buffer) <= 1 THEN [idx |-> 0, level |-> 0]
    ELSE [idx |-> 1, level |-> s.decided_at[var(buffer[2]) + 1]]

\* Iterator::max_by_key over the Rust indices 1.. : the last of the maxima.
MaxLevelIdx(buffer, s) ==
    LET dl(i) == s.decided_at[var(buffer[i + 1]) + 1]
        cand == 1..(Len(buffer) - 1)
    IN IF cand = {} THEN [idx |-> 0, level |-> 0]
       ELSE LET i == CHOOSE i \in cand :
                        /\ \A j \in cand : dl(j) <= dl(i)
                        /\ \A j \in cand : j > i => dl(j) < dl(i)
            IN [idx |-> i, level |-> dl(i)]

analyze(s, cref) ==
    LET a0 == [buffer |-> <<>>, count |-> 0, seen |-> {}, to_clear |-> <<>>,
               brancher |-> s.brancher, panic |-> "none"]
        Ordered(a3, m) ==
            [learned_clause |-> IF m.idx > 1 THEN Swap(a3.buffer, 2, m.idx + 1)
                                ELSE a3.buffer,
             backjump_level |-> m.level,
             brancher |-> a3.brancher, panic |-> a3.panic]
        Minimized(a3) == Ordered(a3, MaxLevelIdx(a3.buffer, s))
        Derived(a2) == Minimized(IF a2.panic = "none" THEN minimize_clause(a2, s, 0) ELSE a2)
    IN Derived(Resolve(AddLiterals(a0, s, s.clauses[cref], 1), s, Len(s.trail)))

---------------------------------------------------------------------------
(* The inputs.  inst selects the family of the instance: 0 a free CNF, k > 0  *)
(* the pigeon-hole instance under variable numbering k, -1 a free CP instance, *)
(* -2 a CP instance that allocates its literals before its domain, as          *)
(* examples/bibd.rs does, and posts the backjump clauses, -13 the CNF of the   *)
(* implied literal, -3 a CNF of a few                                          *)
(* full-length clauses over as many variables.                                 *)

RECURSIVE SetToSeq(_)
SetToSeq(S) ==
    IF S = {} THEN <<>>
    ELSE LET m == CHOOSE x \in S : \A y \in S : y <= x IN <<m>> \o SetToSeq(S \ {m})

RECURSIVE Rank(_)
Rank(S) == IF S = {} THEN 0 ELSE LET x == CHOOSE y \in S : TRUE IN Pow2(x) + Rank(S \ {x})

\* The clauses over the first n variables, each written in descending order.
FreeClauses(n) ==
    {SetToSeq(c) : c \in {c \in SUBSET (0..(2 * n - 1)) : c # {} /\ Cardinality(c) <= MaxClauseLen}}

Pigeons == Holes + 1

\* Pigeon i sits in hole j: the variable of x_{i,j} under numbering k.
PigeonVar(i, j, k) == ((i - 1) * Holes + (j - 1) + (k - 1)) % (Pigeons * Holes)

\* Every pigeon has a hole; no two pigeons share one.
PigeonClauses(k) ==
    LET triple(n) == [j |-> ((n - 1) \div (Pigeons * Pigeons)) + 1,
                      a |-> (((n - 1) \div Pigeons) % Pigeons) + 1,
                      b |-> ((n - 1) % Pigeons) + 1]
        triples == SelectSeq([n \in 1..(Holes * Pigeons * Pigeons) |-> triple(n)],
                             LAMBDA t : t.a < t.b)
    IN [i \in 1..Pigeons |-> [j \in 1..Holes |-> positive(PigeonVar(i, j, k))]]
       \o [n \in 1..Len(triples) |->
             <<negative(PigeonVar(triples[n].a, triples[n].j, k)),
               negative(PigeonVar(triples[n].b, triples[n].j, k))>>]

\* The variables behind the bound literals of the domains.
DomainVars(s) ==
    {var(l) : l \in UNION {Range(s.domains[d].literals) : d \in 1..Len(s.domains)}}

PlainVars(s) == (0..(s.next_var_code - 1)) \ DomainVars(s)

\* The clauses over the plain variables of a CP instance.
PlainClauses(s) ==
    {SetToSeq(c) : c \in {c \in SUBSET {l \in 0..(2 * s.next_var_code - 1) : var(l) \in PlainVars(s)} :
                              c # {} /\ Cardinality(c) <= CPClauseLen}}

\* The literal arrays of a linear constraint: distinct plain variables in
\* increasing order, each under either polarity.
TermInputs(s) ==
    {SetToSeq(c) : c \in {c \in SUBSET {l \in 0..(2 * s.next_var_code - 1) : var(l) \in PlainVars(s)} :
                              /\ c # {}
                              /\ Cardinality(c) <= MaxTerms
                              /\ \A a, b \in c : var(a) = var(b) => a = b}}

\* Deciding variable 2 after variable 4 propagates variable 1 and runs into a
\* conflict whose learned clause backjumps to the level of variable 4.
BackjumpClauses ==
    <<<<negative(2), negative(4), positive(1)>>,
      <<negative(2), negative(4), negative(1)>>>>

\* Variable 0, decided first, propagates variable 1; variable 3, decided next,
\* propagates variable 2 and runs into a conflict whose clause holds the
\* negations of the variables 0 and 1 below the conflict level.
ImpliedLiteralClauses ==
    <<<<negative(0), positive(1)>>,
      <<negative(3), negative(1), positive(2)>>,
      <<negative(3), negative(0), negative(2)>>>>

ClauseInputs ==
    CASE inst = 0 ->
            {c \in FreeClauses(solver.next_var_code) \cup {<<>>} :
                /\ Len(given) < MaxClauses
                /\ given # <<>> => Rank(Range(given[Len(given)])) < Rank(Range(c))}
      [] inst > 0 ->
            {PigeonClauses(inst)[n] :
                n \in {Len(given) + 1} \cap (1..Len(PigeonClauses(inst)))}
      [] inst = -1 ->
            {c \in PlainClauses(solver) : Len(given) < CPClauses}
      [] inst = -2 ->
            {BackjumpClauses[n] : n \in {Len(given) + 1} \cap (1..Len(BackjumpClauses))}
      [] inst = -3 ->
            {c \in FreeClauses(WideVars) :
                /\ Len(c) = MaxClauseLen
                /\ Len(given) < WideClauses
                /\ c \notin Range(given)}
      [] inst = -13 ->
            {ImpliedLiteralClauses[n] :
                n \in {Len(given) + 1} \cap (1..Len(ImpliedLiteralClauses))}

VarLimit ==
    CASE inst = 0 -> NumVars
      [] inst > 0 -> Pigeons * Holes
      [] inst = -1 -> CPVars
      [] inst \in {-3, -2} -> WideVars
      [] inst = -13 -> ChainVars

---------------------------------------------------------------------------
(* The state machine. *)

NoAnalysis == [learned_clause |-> <<>>, backjump_level |-> 0, reason |-> ReasonDecision]

\* No call of the propagation interface has been made.
NoCall ==
    [op |-> "none", d |-> 0, v |-> 0, id |-> 0, expl |-> <<>>,
     err |-> FALSE, lit |-> 0, rexpl |-> <<>>, n |-> 0]

Init ==
    /\ solver = NewSolver
    /\ pc = "setup"
    /\ conflict = 0
    /\ analysis = NoAnalysis
    /\ result = "none"
    /\ given = <<>>
    /\ posted = <<>>
    /\ inst \in (-3..NumPigeonOrders) \cup {-13}
    /\ call = NoCall

Finish(s, res) ==
    /\ solver' = s
    /\ pc' = "done"
    /\ result' = IF s.panic # "none" THEN "Panic" ELSE res

\* solver.new_lits().next()
NewLit ==
    /\ pc = "setup"
    /\ given = <<>>
    /\ posted = <<>>
    /\ Cardinality(PlainVars(solver)) < VarLimit
    /\ inst = -2 => solver.domains = <<>>
    /\ solver' = new_lit(solver)
    /\ UNCHANGED <<pc, conflict, analysis, result, given, posted, inst, call>>

\* solver.add_clause(c)
AddClause ==
    /\ pc = "setup"
    /\ inst \notin {0, -1} => solver.next_var_code >= VarLimit
    /\ \E c \in ClauseInputs :
          /\ solver' = add_clause(solver, c)
          /\ given' = Append(given, c)
    /\ UNCHANGED <<pc, conflict, analysis, result, posted, inst, call>>

\* solver.new_domain(IntInterval::factory(lo, hi))
NewDomain ==
    /\ pc = "setup"
    /\ inst \in {-2, -1}
    /\ given = <<>>
    /\ posted = <<>>
    /\ Len(solver.domains) < MaxDomains
    /\ inst = -2 => solver.next_var_code = VarLimit
    /\ \E lo \in 0..MaxBound, hi \in 0..MaxBound :
          /\ lo <= hi
          /\ solver' = new_domain(solver, lo, hi)
    /\ UNCHANGED <<pc, conflict, analysis, result, given, posted, inst, call>>

\* bool_lin_leq(&mut solver, x, y)
PostBoolLinLeq ==
    /\ pc = "setup"
    /\ inst \in {-2, -1}
    /\ given = <<>>
    /\ Len(posted) < MaxPosts
    /\ \E x \in TermInputs(solver), y \in 1..Len(solver.domains) :
          /\ solver' = bool_lin_leq(solver, x, y)
          /\ posted' = Append(posted, [kind |-> "leq", x |-> x, y |-> y])
    /\ UNCHANGED <<pc, conflict, analysis, result, given, inst, call>>

\* bool_lin_eq(&mut solver, x, y)
PostBoolLinEq ==
    /\ pc = "setup"
    /\ inst \in {-2, -1}
    /\ given = <<>>
    /\ Len(posted) < MaxPosts
    /\ \E x \in TermInputs(solver), y \in 1..Len(solver.domains) :
          /\ solver' = bool_lin_eq(solver, x, y)
          /\ posted' = Append(posted, [kind |-> "eq", x |-> x, y |-> y])
    /\ UNCHANGED <<pc, conflict, analysis, result, given, inst, call>>

\* solve: the check of the root-conflict state before the loop.
SolveEntry ==
    /\ pc = "setup"
    /\ IF solver.state = "ConflictAtRoot"
       THEN Finish(solver, "Unsatisfiable")
       ELSE pc' = "loop" /\ UNCHANGED <<solver, result>>
    /\ UNCHANGED <<conflict, analysis, given, posted, inst, call>>

\* A loop that propagates once more before it gives up.
StopAfterPropagate ==
    /\ pc = "loop"
    /\ Finish(propagate(solver).s, "Unknown")
    /\ UNCHANGED <<conflict, analysis, given, posted, inst, call>>

\* terminator.should_stop() answers true.
Stop ==
    /\ pc = "loop"
    /\ Finish(solver, "Unknown")
    /\ UNCHANGED <<conflict, analysis, given, posted, inst, call>>

\* terminator.should_stop() answers false: self.propagate().
Propagate ==
    /\ pc = "loop"
    /\ LET Propagated(r) ==
              /\ conflict' = r.conflict
              /\ IF r.s.panic # "none"
                 THEN Finish(r.s, "Panic")
                 ELSE solver' = r.s /\ pc' = "propagated" /\ UNCHANGED result
       IN Propagated(propagate(solver))
    /\ UNCHANGED <<analysis, given, posted, inst, call>>

\* Err(conflict) at the root.
RootConflict ==
    /\ pc = "propagated"
    /\ conflict # 0
    /\ solver.current_depth = 0
    /\ Finish(solver, "Unsatisfiable")
    /\ UNCHANGED <<conflict, analysis, given, posted, inst, call>>

\* Err(conflict) below the root: self.analyzer.analyze(...).
Analyze ==
    /\ pc = "propagated"
    /\ conflict # 0
    /\ solver.current_depth > 0
    /\ solver.brancher.activity_increment >= DecayDen
    /\ LET Analyzed(r) ==
              IF r.panic # "none"
              THEN /\ Finish(Panic([solver EXCEPT !.brancher = r.brancher], r.panic), "Panic")
                   /\ UNCHANGED analysis
              ELSE /\ solver' = [solver EXCEPT !.brancher = r.brancher]
                   /\ analysis' = [learned_clause |-> r.learned_clause,
                                   backjump_level |-> r.backjump_level,
                                   reason |-> ReasonDecision]
                   /\ pc' = "analyzed"
                   /\ UNCHANGED result
       IN Analyzed(analyze(solver, conflict))
    /\ UNCHANGED <<conflict, given, posted, inst, call>>

\* add_learned_clause, watch_clause and backtrack_to of the conflict branch.
Backjump ==
    /\ pc = "analyzed"
    /\ LET lc == analysis.learned_clause IN
       IF lc = <<>> \/ analysis.backjump_level >= Len(solver.trail_delim)
       THEN Finish(Panic(solver, "index out of bounds"), "Panic") /\ UNCHANGED analysis
       ELSE LET Watched(s0) == watch_clause(s0, Len(s0.clauses))
                Learned(s1) ==
                    /\ solver' = backtrack_to(s1, analysis.backjump_level)
                    /\ analysis' = [analysis EXCEPT !.reason =
                                       IF Len(lc) > 1 THEN ReasonClause(Len(s1.clauses))
                                       ELSE ReasonDecision]
                    /\ pc' = "backtracked"
                    /\ UNCHANGED result
            IN Learned(IF Len(lc) > 1 THEN Watched(db_add_clause(solver, lc, "learned"))
                       ELSE solver)
    /\ UNCHANGED <<conflict, given, posted, inst, call>>

\* The enqueue of the asserting literal and brancher.on_conflict().
AssertLearned ==
    /\ pc = "backtracked"
    /\ LET Enqueued(e) ==
              IF ~e.ok
              THEN Finish(Panic(solver, "conflicting asserting literal"), "Panic")
              ELSE /\ solver' = [e.s EXCEPT !.brancher = on_conflict(@)]
                   /\ pc' = "loop"
                   /\ UNCHANGED result
       IN Enqueued(enqueue(solver, analysis.learned_clause[1], analysis.reason))
    /\ UNCHANGED <<conflict, analysis, given, posted, inst, call>>

\* An Ok(()) branch that goes round the loop again and decides nothing.
propagate_again ==
    /\ pc = "propagated"
    /\ conflict = 0
    /\ pc' = "loop"
    /\ UNCHANGED <<solver, conflict, analysis, result, given, posted, inst, call>>

\* Ok(()): a new decision level and the next decision.
Decide ==
    /\ pc = "propagated"
    /\ conflict = 0
    /\ LET s1 == [solver EXCEPT !.trail_delim = Append(@, Len(solver.trail)),
                                !.current_depth = @ + 1]
           Enqueued(e, s2) ==
              IF ~e.ok
              THEN Finish(Panic(s2, "decided already assigned literal"), "Panic")
              ELSE solver' = e.s /\ pc' = "loop" /\ UNCHANGED result
           Branched(d, s2) ==
              IF d.lit = -1
              THEN Finish(s2, "Satisfiable")
              ELSE Enqueued(enqueue(s2, d.lit, ReasonDecision), s2)
           Decided(d) == Branched(d, [s1 EXCEPT !.brancher = d.brancher])
       IN Decided(next_decision(s1.brancher, s1))
    /\ UNCHANGED <<conflict, analysis, given, posted, inst, call>>

SolveStep ==
    \/ SolveEntry
    \/ Stop
    \/ Propagate
    \/ RootConflict
    \/ Analyze
    \/ Backjump
    \/ AssertLearned
    \/ Decide

Next == NewLit \/ NewDomain \/ PostBoolLinLeq \/ PostBoolLinEq \/ AddClause \/ SolveStep

Spec == Init /\ [][Next]_vars

---------------------------------------------------------------------------
(* The propagator queue on its own: the solver grows it by one id per          *)
(* propagator, pushes the ids its watches name and pops until it is empty.     *)

\* Propagator ids of the queue.
QueueIds == 5

InitQueue ==
    /\ solver = NewSolver
    /\ pc = "queue"
    /\ conflict = 0
    /\ analysis = NoAnalysis
    /\ result = "none"
    /\ given = <<>>
    /\ posted = <<>>
    /\ inst = 0
    /\ call = NoCall

\* self.propagator_queue.grow_to(slot.id())
QueueGrow ==
    /\ pc = "queue"
    /\ Len(solver.present) < QueueIds
    /\ solver' = grow_to(solver, Len(solver.present) + 1)
    /\ UNCHANGED <<pc, conflict, analysis, result, given, posted, inst, call>>

\* self.propagator_queue.push(propagator_id)
QueuePush ==
    /\ pc = "queue"
    /\ \E id \in 1..Len(solver.present) : solver' = queue_push(solver, id)
    /\ UNCHANGED <<pc, conflict, analysis, result, given, posted, inst, call>>

\* self.propagator_queue.pop() answering Some(id)
QueuePop ==
    /\ pc = "queue"
    /\ solver.queue # <<>>
    /\ solver' = queue_pop(solver).s
    /\ UNCHANGED <<pc, conflict, analysis, result, given, posted, inst, call>>

NextQueue == QueueGrow \/ QueuePush \/ QueuePop

SpecQueue == InitQueue /\ [][NextQueue]_vars

---------------------------------------------------------------------------
(* The propagation interface on its own: the calls a propagator makes through *)
(* its Context (set_min, set_max) and the calls the solver makes between them  *)
(* (propagate_propositional, propagate_propagator), one at a time, on a solver *)
(* built at the root.  inst = -4 posts linear_leq over all domains, inst = -5  *)
(* posts bool_lin_leq over plain literals and one domain.                      *)

\* Domains of a linear_leq instance, their upper bound at creation, the
\* greatest right-hand side.
LeqTerms == 3
LeqBound == 5
RhsMax == 4
\* Plain literals of a bool_lin_leq instance.
CallLits == 2
\* Calls of set_min, set_max and propagate in one run.
MaxCalls == 3

InitCalls ==
    /\ solver = NewSolver
    /\ pc = "build"
    /\ conflict = 0
    /\ analysis = NoAnalysis
    /\ result = "none"
    /\ given = <<>>
    /\ posted = <<>>
    /\ inst \in {-5, -4}
    /\ call = NoCall

\* solver.new_lits().next()
CallNewLit ==
    /\ pc = "build"
    /\ inst = -5
    /\ solver.domains = <<>>
    /\ solver.next_var_code < CallLits
    /\ solver' = new_lit(solver)
    /\ UNCHANGED <<pc, conflict, analysis, result, given, posted, inst, call>>

\* solver.new_domain(IntInterval::factory(lo, hi))
CallNewDomain ==
    /\ pc = "build"
    /\ posted = <<>>
    /\ IF inst = -4
       THEN /\ Len(solver.domains) < LeqTerms
            /\ solver' = new_domain(solver, 0, LeqBound)
       ELSE /\ solver.domains = <<>>
            /\ \E lo \in 0..MaxBound, hi \in 0..MaxBound :
                  /\ lo <= hi
                  /\ solver' = new_domain(solver, lo, hi)
    /\ UNCHANGED <<pc, conflict, analysis, result, given, posted, inst, call>>

\* linear_leq(&mut solver, terms, rhs)
CallPostLinearLeq ==
    /\ pc = "build"
    /\ inst = -4
    /\ posted = <<>>
    /\ solver.domains # <<>>
    /\ \E rhs \in 0..RhsMax :
          LET terms == [i \in 1..Len(solver.domains) |-> i] IN
          /\ solver' = linear_leq(solver, terms, rhs)
          /\ posted' = <<[kind |-> "linear_leq", x |-> terms, y |-> rhs]>>
    /\ UNCHANGED <<pc, conflict, analysis, result, given, inst, call>>

\* bool_lin_leq(&mut solver, x, y)
CallPostBoolLinLeq ==
    /\ pc = "build"
    /\ inst = -5
    /\ posted = <<>>
    /\ solver.domains # <<>>
    /\ \E x \in TermInputs(solver) :
          /\ solver' = bool_lin_leq(solver, x, 1)
          /\ posted' = <<[kind |-> "leq", x |-> x, y |-> 1]>>
    /\ UNCHANGED <<pc, conflict, analysis, result, given, inst, call>>

\* solver.add_clause([lit]) for a plain literal, in the order of the variables.
CallAddUnit ==
    /\ pc = "build"
    /\ inst = -5
    /\ posted # <<>>
    /\ \E l \in 0..(2 * CallLits - 1) :
          /\ var(l) \in PlainVars(solver)
          /\ \A n \in 1..Len(given) : var(given[n][1]) < var(l)
          /\ solver' = add_clause(solver, <<l>>)
          /\ given' = Append(given, <<l>>)
    /\ UNCHANGED <<pc, conflict, analysis, result, posted, inst, call>>

\* The explanation the caller of set_min or set_max hands over.
CallerExplanation(s, d) ==
    <<AtLeast(d, s.domains[d].lower_bound), AtMost(d, s.domains[d].upper_bound)>>

\* The values around and inside the range a domain was created with.
SeedValues(dom) == (dom.origin - 1)..(dom.origin + Len(dom.literals) - 1)

\* What is kept of a call that returned r: the state, the outcome and the arguments.
Returned(op, d, v, id, expl, r, cref) ==
    /\ solver' = r.s
    /\ conflict' = cref
    /\ result' = IF r.s.panic # "none" THEN "Panic"
                 ELSE IF r.err THEN "Conflict" ELSE "Ok"
    /\ pc' = IF r.s.panic # "none" \/ r.err THEN "done" ELSE "calls"
    /\ call' = [op |-> op, d |-> d, v |-> v, id |-> id, expl |-> expl,
                err |-> r.err, lit |-> r.lit, rexpl |-> r.expl, n |-> call.n + 1]

\* A propagator calls set_min(ctx, v, explanation) on a domain.
CallSetMin ==
    /\ pc \in {"build", "calls"}
    /\ posted # <<>>
    /\ call.n < MaxCalls
    /\ \E d \in 1..Len(solver.domains) :
          \E v \in SeedValues(solver.domains[d]) :
             Returned("set_min", d, v, 0, CallerExplanation(solver, d),
                      set_min(solver, d, v, CallerExplanation(solver, d)), 0)
    /\ UNCHANGED <<analysis, given, posted, inst>>

\* A propagator calls set_max(ctx, v, explanation) on a domain.
CallSetMax ==
    /\ pc \in {"build", "calls"}
    /\ posted # <<>>
    /\ call.n < MaxCalls
    /\ \E d \in 1..Len(solver.domains) :
          \E v \in SeedValues(solver.domains[d]) :
             Returned("set_max", d, v, 0, CallerExplanation(solver, d),
                      set_max(solver, d, v, CallerExplanation(solver, d)), 0)
    /\ UNCHANGED <<analysis, given, posted, inst>>

\* self.propagate_propositional() of Solver::propagate.
CallChannel ==
    /\ pc \in {"build", "calls"}
    /\ posted # <<>>
    /\ solver.next_propagation_idx < Len(solver.trail)
    /\ LET Channeled(r) ==
              /\ solver' = r.s
              /\ conflict' = r.conflict
              /\ result' = IF r.conflict # 0 THEN "Conflict" ELSE "Ok"
              /\ pc' = IF r.conflict # 0 THEN "done" ELSE "calls"
              /\ call' = [NoCall EXCEPT !.op = "channel", !.n = call.n]
       IN Channeled(propagate_propositional(solver))
    /\ UNCHANGED <<analysis, given, posted, inst>>

\* self.propagate_propagator(id) of Solver::propagate, which follows a
\* propagate_propositional that returned Ok. call.err, call.lit and call.rexpl
\* keep what the propagator itself returned, before the conflict clause is built.
CallPropagate ==
    /\ pc \in {"build", "calls"}
    /\ posted # <<>>
    /\ call.n < MaxCalls
    /\ solver.next_propagation_idx = Len(solver.trail)
    /\ LET Propagated(r, m) ==
              Returned("propagate", 0, 0, 1, <<>>,
                       [s |-> m.s, err |-> r.err, lit |-> r.lit, expl |-> r.expl],
                       m.conflict)
       IN Propagated(propagator_propagate(solver, 1), propagate_propagator(solver, 1))
    /\ UNCHANGED <<analysis, given, posted, inst>>

NextCalls ==
    \/ CallNewLit
    \/ CallNewDomain
    \/ CallPostLinearLeq
    \/ CallPostBoolLinLeq
    \/ CallAddUnit
    \/ CallSetMin
    \/ CallSetMax
    \/ CallChannel
    \/ CallPropagate

SpecCalls == InitCalls /\ [][NextCalls]_vars

---------------------------------------------------------------------------
(* The clause preprocessor on its own: candidate clauses in any order and with *)
(* repeated literals, under any assignment of the variables at the root.       *)

\* Variables of the assignment and the greatest length of a candidate clause.
PreVars == 3
PreLen == 4

InitPre ==
    /\ solver = NewSolver
    /\ pc = "pre"
    /\ conflict = 0
    /\ analysis = NoAnalysis
    /\ result = "none"
    /\ given = <<>>
    /\ posted = <<>>
    /\ inst = -6
    /\ call = NoCall

\* assignment.grow_to(var)
PreNewLit ==
    /\ pc = "pre"
    /\ call = NoCall
    /\ solver.next_var_code < PreVars
    /\ solver' = new_lit(solver)
    /\ UNCHANGED <<pc, conflict, analysis, result, given, posted, inst, call>>

\* assignment.assign(lit)
PreAssign ==
    /\ pc = "pre"
    /\ call = NoCall
    /\ \E l \in 0..(2 * solver.next_var_code - 1) :
          /\ is_unassigned(solver, l)
          /\ solver' = assign(solver, l)
    /\ UNCHANGED <<pc, conflict, analysis, result, given, posted, inst, call>>

\* The candidate clauses over the literals of the allocated variables.
PreInputs(s) == UNION {[1..n -> 0..(2 * s.next_var_code - 1)] : n \in 0..PreLen}

\* preprocessor.preprocess(lits, &assignment): call.expl keeps the candidate,
\* call.err is Satisfiable, call.rexpl the literals of Lits.
PrePreprocess ==
    /\ pc = "pre"
    /\ call = NoCall
    /\ \E lits \in PreInputs(solver) :
          LET Preprocessed(r) ==
                 call' = [NoCall EXCEPT !.op = "preprocess", !.expl = lits,
                                        !.err = r.sat, !.rexpl = r.lits, !.n = 1]
          IN Preprocessed(preprocess(lits, solver))
    /\ UNCHANGED <<solver, pc, conflict, analysis, result, given, posted, inst>>

NextPre == PreNewLit \/ PreAssign \/ PrePreprocess

SpecPre == InitPre /\ [][NextPre]_vars

---------------------------------------------------------------------------
(* integer/affine_view.rs: the atoms of the view scale * inner + offset.  The  *)
(* magnitudes are far below the width of Int (i32), so that no subtraction     *)
(* overflows.                                                                  *)

\* The greatest magnitude of the scale, of the offset and of a bound.
AffScale == 3
AffOffset == 3
AffBound == 7

Abs(n) == IF n < 0 THEN -n ELSE n

\* The operators / and % of Int: the quotient is truncated towards zero and the
\* remainder has the sign of the dividend.
TruncDiv(lhs, rhs) ==
    IF (lhs < 0) = (rhs < 0) THEN Abs(lhs) \div Abs(rhs) ELSE -(Abs(lhs) \div Abs(rhs))

Rem(lhs, rhs) == lhs - rhs * TruncDiv(lhs, rhs)

\* The quotient of the operator /, without the rounding towards the floor.
div_trunc(lhs, rhs) == TruncDiv(lhs, rhs)

\* Int::div_floor(lhs, rhs) of int_roundings.
div_floor(lhs, rhs) ==
    LET d == TruncDiv(lhs, rhs)
        r == Rem(lhs, rhs)
    IN IF (r > 0 /\ rhs < 0) \/ (r < 0 /\ rhs > 0) THEN d - 1 ELSE d

\* Int::div_ceil(lhs, rhs) of int_roundings.
div_ceil(lhs, rhs) ==
    LET d == TruncDiv(lhs, rhs)
        r == Rem(lhs, rhs)
    IN IF (r > 0 /\ rhs > 0) \/ (r < 0 /\ rhs < 0) THEN d + 1 ELSE d

\* Affine::upper_bound_atom of a view on the domain inner.
affine_upper_bound_atom(view, bound) ==
    IF view.scale >= 0
    THEN AtMost(view.inner, div_floor(bound - view.offset, view.scale))
    ELSE AtLeast(view.inner, div_ceil(bound - view.offset, view.scale))

\* Affine::lower_bound_atom of a view on the domain inner.
affine_lower_bound_atom(view, bound) ==
    IF view.scale >= 0
    THEN AtLeast(view.inner, div_ceil(bound - view.offset, view.scale))
    ELSE AtMost(view.inner, div_floor(bound - view.offset, view.scale))

\* The view that posted holds.
TheView == [scale |-> posted[1].x, offset |-> posted[1].y, inner |-> 1]

InitAffine ==
    /\ solver = NewSolver
    /\ pc = "affine"
    /\ conflict = 0
    /\ analysis = NoAnalysis
    /\ result = "none"
    /\ given = <<>>
    /\ posted = <<>>
    /\ inst = -7
    /\ call = NoCall

\* Affine::new(scale, offset, inner)
AffNew ==
    /\ pc = "affine"
    /\ posted = <<>>
    /\ \E scale \in (-AffScale)..AffScale, offset \in (-AffOffset)..AffOffset :
          posted' = <<[kind |-> "affine", x |-> scale, y |-> offset]>>
    /\ UNCHANGED <<solver, pc, conflict, analysis, result, given, inst, call>>

\* The call op of the view with a bound; a scale of 0 is a division by zero.
AffAtom(op, bound) ==
    /\ pc = "affine"
    /\ posted # <<>>
    /\ IF TheView.scale = 0
       THEN /\ solver' = Panic(solver, "attempt to divide by zero")
            /\ result' = "Panic"
            /\ pc' = "done"
            /\ call' = [NoCall EXCEPT !.op = op, !.d = 1, !.v = bound, !.n = call.n + 1]
       ELSE /\ call' = [NoCall EXCEPT
                          !.op = op, !.d = 1, !.v = bound, !.n = call.n + 1,
                          !.rexpl = IF op = "upper_bound_atom"
                                    THEN <<affine_upper_bound_atom(TheView, bound)>>
                                    ELSE <<affine_lower_bound_atom(TheView, bound)>>]
            /\ UNCHANGED <<solver, result, pc>>
    /\ UNCHANGED <<conflict, analysis, given, posted, inst>>

\* view.upper_bound_atom(bound)
AffUpperBoundAtom ==
    /\ call = NoCall
    /\ \E bound \in (-AffBound)..AffBound : AffAtom("upper_bound_atom", bound)

\* view.lower_bound_atom(bound)
AffLowerBoundAtom ==
    /\ call = NoCall
    /\ \E bound \in (-AffBound)..AffBound : AffAtom("lower_bound_atom", bound)

NextAffine == AffNew \/ AffUpperBoundAtom \/ AffLowerBoundAtom

SpecAffine == InitAffine /\ [][NextAffine]_vars

---------------------------------------------------------------------------
(* trail.rs: the trail on its own, with the operations the solver uses:        *)
(* enqueue, push and backtrack_to with its iterator run to the end.  given      *)
(* keeps, for every literal on the trail, the number of level marks at the time *)
(* it was enqueued.                                                            *)

\* Literal codes, the greatest length of the trail and the greatest number of
\* level marks.
TrailLits == 2
MaxTrail == 5
MaxMarks == 3

\* BacktrackingIterator::next until None: the literals it yields, in order.
RECURSIVE Yielded(_, _, _)
Yielded(trail, current, target_len) ==
    IF current > 0 /\ current > target_len
    THEN <<trail[current]>> \o Yielded(trail, current - 1, target_len)
    ELSE <<>>

\* Trail::backtrack_to with target_len one literal short.
trail_backtrack_short(s, decision_level) ==
    IF decision_level >= Len(s.trail_delim)
    THEN [s |-> Panic(s, "index out of bounds"), yielded |-> <<>>]
    ELSE LET target_len == s.trail_delim[decision_level + 1] - 1
         IN [s |-> [s EXCEPT !.trail_delim = SubSeq(@, 1, decision_level),
                             !.trail = SubSeq(@, 1, Min2(target_len, Len(@)))],
             yielded |-> Yielded(s.trail, Len(s.trail), target_len)]

\* Trail::backtrack_to, the iterator collected and then dropped.
trail_backtrack_to(s, decision_level) ==
    IF decision_level >= Len(s.trail_delim)
    THEN [s |-> Panic(s, "index out of bounds"), yielded |-> <<>>]
    ELSE LET target_len == s.trail_delim[decision_level + 1]
         IN [s |-> [s EXCEPT !.trail_delim = SubSeq(@, 1, decision_level),
                             !.trail = SubSeq(@, 1, Min2(target_len, Len(@)))],
             yielded |-> Yielded(s.trail, Len(s.trail), target_len)]

InitTrail ==
    /\ solver = NewSolver
    /\ pc = "trail"
    /\ conflict = 0
    /\ analysis = NoAnalysis
    /\ result = "none"
    /\ given = <<>>
    /\ posted = <<>>
    /\ inst = -8
    /\ call = NoCall

\* trail.enqueue(lit)
TrEnqueue ==
    /\ pc = "trail"
    /\ Len(solver.trail) < MaxTrail
    /\ \E lit \in 0..(TrailLits - 1) :
          solver' = [solver EXCEPT !.trail = Append(@, lit)]
    /\ given' = Append(given, Len(solver.trail_delim))
    /\ UNCHANGED <<pc, conflict, analysis, result, posted, inst, call>>

\* trail.push()
TrPush ==
    /\ pc = "trail"
    /\ Len(solver.trail_delim) < MaxMarks
    /\ solver' = [solver EXCEPT !.trail_delim = Append(@, Len(solver.trail))]
    /\ UNCHANGED <<pc, conflict, analysis, result, given, posted, inst, call>>

\* trail.backtrack_to(decision_level).collect()
TrBacktrackTo ==
    /\ pc = "trail"
    /\ \E decision_level \in 0..Len(solver.trail_delim) :
          LET Collected(r) ==
                 /\ solver' = r.s
                 /\ result' = IF r.s.panic # "none" THEN "Panic" ELSE "Ok"
                 /\ pc' = IF r.s.panic # "none" THEN "done" ELSE pc
                 /\ call' = [NoCall EXCEPT !.op = "backtrack_to", !.v = decision_level,
                                           !.rexpl = r.yielded, !.n = 1 - call.n]
          IN /\ Collected(trail_backtrack_to(solver, decision_level))
             /\ given' = SelectSeq(given, LAMBDA level : level <= decision_level)
    /\ UNCHANGED <<conflict, analysis, posted, inst>>

NextTrail == TrEnqueue \/ TrPush \/ TrBacktrackTo

SpecTrail == InitTrail /\ [][NextTrail]_vars

---------------------------------------------------------------------------
(* lit.rs on its own: the operations of Lit on every variable code and every   *)
(* literal code of a small range.  A Var holds a code of at most MAX_VAR_CODE, *)
(* so that the shift of Lit::positive and Lit::negative loses no bit.          *)

\* The variable codes 0..LitVars-1.
LitVars == 64

InitLit ==
    /\ solver = NewSolver
    /\ pc = "lit"
    /\ conflict = 0
    /\ analysis = NoAnalysis
    /\ result = "none"
    /\ given = <<>>
    /\ posted = <<>>
    /\ inst = -9
    /\ call = NoCall

\* Lit::positive(var) and Lit::negative(var), with var(), ! and is_positive()
\* of both: call.rexpl keeps the literals, their variables and their negations,
\* call.expl the polarities.
LitFromVar ==
    /\ pc = "lit"
    /\ call = NoCall
    /\ \E v \in 0..(LitVars - 1) :
          call' = [NoCall EXCEPT
                     !.op = "lit", !.v = v, !.n = 1,
                     !.rexpl = <<positive(v), negative(v),
                                 var(positive(v)), var(negative(v)),
                                 not(positive(v)), not(negative(v))>>,
                     !.expl = <<is_positive(positive(v)), is_positive(negative(v))>>]
    /\ UNCHANGED <<solver, pc, conflict, analysis, result, given, posted, inst>>

\* !lit, with !!lit, var() and is_positive() of lit and of !lit.
LitNot ==
    /\ pc = "lit"
    /\ call = NoCall
    /\ \E l \in 0..(2 * LitVars - 1) :
          call' = [NoCall EXCEPT
                     !.op = "not", !.v = l, !.n = 1, !.lit = not(l),
                     !.rexpl = <<not(not(l)), var(l), var(not(l))>>,
                     !.expl = <<is_positive(l), is_positive(not(l))>>]
    /\ UNCHANGED <<solver, pc, conflict, analysis, result, given, posted, inst>>

NextLit == LitFromVar \/ LitNot

SpecLit == InitLit /\ [][NextLit]_vars

---------------------------------------------------------------------------
(* crates/dimacs: parse_cnf on its own.  In this specification solver holds    *)
(* the DimacsParser, given the chunks of the source read so far and result     *)
(* what parse_cnf returns.  A byte is a string of one character.  The source   *)
(* is a sequence of chunks: a header line or one byte of the body.             *)

\* The greatest number of chunks of a source.
MaxChunks == 5

\* The header lines and the bytes of the body of a source.
DimacsHeaders ==
    {<<"p", " ", "c", "n", "f", " ", "2", " ", "1", "\n">>,
     <<"p", " ", "c", "n", "f", " ", "1", " ", "0", "\n">>}

DimacsBody == {"0", "1", "2", "-", " ", "\n", "c"}

NewParser ==
    [sink_constructor |-> TRUE, has_sink |-> FALSE, sink |-> <<>>,
     num_clauses |-> -1, buffer |-> <<>>, clause |-> <<>>,
     state |-> "StartLine", parsed_clauses |-> 0, err |-> "none", panic |-> "none"]

is_ascii_whitespace(b) == b \in {" ", "\n"}

Digit(b) == CASE b = "0" -> 0 [] b = "1" -> 1 [] b = "2" -> 2 [] OTHER -> -1

\* str::parse of an unsigned number: -1 for an error.
RECURSIVE ParseUnsigned(_, _, _)
ParseUnsigned(s, i, acc) ==
    IF s = <<>> THEN -1
    ELSE IF i > Len(s) THEN acc
    ELSE IF Digit(s[i]) = -1 THEN -1
    ELSE ParseUnsigned(s, i + 1, 10 * acc + Digit(s[i]))

\* str::trim and str::split(' ').
RECURSIVE trim(_)
trim(s) ==
    IF s = <<>> THEN s
    ELSE IF is_ascii_whitespace(s[1]) THEN trim(Tail(s))
    ELSE IF is_ascii_whitespace(s[Len(s)]) THEN trim(SubSeq(s, 1, Len(s) - 1))
    ELSE s

RECURSIVE split(_, _, _)
split(s, i, cur) ==
    IF i > Len(s) THEN <<cur>>
    ELSE IF s[i] = " " THEN <<cur>> \o split(s, i + 1, <<>>)
    ELSE split(s, i + 1, Append(cur, s[i]))

\* CNFHeader::from_str: num_clauses, -1 for InvalidHeader.
from_str(s) ==
    IF Len(s) < 6 \/ SubSeq(s, 1, 6) # <<"p", " ", "c", "n", "f", " ">> THEN -1
    ELSE LET components == split(trim(s), 1, <<>>)
         IN IF Len(components) # 4 THEN -1
            ELSE IF ParseUnsigned(components[3], 1, 0) = -1 THEN -1
            ELSE ParseUnsigned(components[4], 1, 0)

init_formula(p) ==
    LET num_clauses == from_str(trim(p.buffer))
    IN IF num_clauses = -1 THEN [p EXCEPT !.err = "InvalidHeader"]
       ELSE IF ~p.sink_constructor THEN [p EXCEPT !.panic = "only parse header once"]
       ELSE [p EXCEPT !.sink_constructor = FALSE, !.has_sink = TRUE,
                      !.num_clauses = num_clauses, !.state = "StartLine"]

start_literal(p, b, is_positive_lit) ==
    [p EXCEPT !.state = IF is_positive_lit THEN "Literal" ELSE "NegativeLiteral",
              !.buffer = <<b>>]

\* The buffer holds an optional '-' and digits, the first of them not '0'.
finish_literal(p) ==
    LET dimacs_code == IF p.buffer[1] = "-"
                       THEN -ParseUnsigned(Tail(p.buffer), 1, 0)
                       ELSE ParseUnsigned(p.buffer, 1, 0)
    IN [p EXCEPT !.clause = Append(@, dimacs_code), !.state = "Clause"]

finish_clause(p) ==
    IF ~p.has_sink THEN [p EXCEPT !.err = "MissingHeader"]
    ELSE [p EXCEPT !.parsed_clauses = @ + 1, !.sink = Append(@, p.clause),
                   !.clause = <<>>]

\* One iteration of the loop of DimacsParser::parse_chunk.
parse_byte(p, b) ==
    LET Unexpected == [p EXCEPT !.err = "UnexpectedCharacter"] IN
    CASE p.state = "StartLine" ->
            IF is_ascii_whitespace(b) THEN p
            ELSE IF b = "p" THEN [p EXCEPT !.state = "Header", !.buffer = <<"p">>]
            ELSE IF b = "c" THEN [p EXCEPT !.state = "Comment"]
            ELSE IF b \in {"1", "2"} THEN start_literal(p, b, TRUE)
            ELSE IF b = "0" THEN finish_clause(p)
            ELSE IF b = "-" THEN start_literal(p, "-", FALSE)
            ELSE Unexpected
      [] p.state = "Header" ->
            IF b = "\n" THEN init_formula(p) ELSE [p EXCEPT !.buffer = Append(@, b)]
      [] p.state = "Comment" ->
            IF b = "\n" THEN [p EXCEPT !.state = "StartLine"] ELSE p
      [] p.state = "Literal" ->
            IF is_ascii_whitespace(b) THEN finish_literal(p)
            ELSE IF b \in {"0", "1", "2"} THEN [p EXCEPT !.buffer = Append(@, b)]
            ELSE Unexpected
      [] p.state = "NegativeLiteral" ->
            IF b \in {"1", "2"} THEN [p EXCEPT !.buffer = Append(@, b), !.state = "Literal"]
            ELSE Unexpected
      [] p.state = "Clause" ->
            IF b = "0" THEN finish_clause(p)
            ELSE IF b = "\n" THEN [p EXCEPT !.state = "StartLine"]
            ELSE IF is_ascii_whitespace(b) THEN p
            ELSE IF b \in {"1", "2"} THEN start_literal(p, b, TRUE)
            ELSE IF b = "-" THEN start_literal(p, "-", FALSE)
            ELSE Unexpected

\* DimacsParser::parse_chunk from the byte i of the chunk on.
RECURSIVE parse_chunk(_, _, _)
parse_chunk(p, chunk, i) ==
    IF i > Len(chunk) \/ p.err # "none" \/ p.panic # "none" THEN p
    ELSE parse_chunk(parse_byte(p, chunk[i]), chunk, i + 1)

\* DimacsParser::complete: the error, or "Ok".
complete(p) ==
    IF ~p.has_sink THEN "MissingHeader"
    ELSE IF p.clause # <<>> THEN "UnterminatedClause"
    ELSE IF p.num_clauses # p.parsed_clauses THEN "IncorrectClauseCount"
    ELSE "Ok"

InitDimacs ==
    /\ solver = NewParser
    /\ pc = "dimacs"
    /\ conflict = 0
    /\ analysis = NoAnalysis
    /\ result = "none"
    /\ given = <<>>
    /\ posted = <<>>
    /\ inst = -10
    /\ call = NoCall

\* parse_cnf: reader.fill_buf() answers a chunk, parser.parse_chunk(data)?
DimacsChunk ==
    /\ pc = "dimacs"
    /\ Len(given) < MaxChunks
    /\ \E chunk \in DimacsHeaders \cup {<<b>> : b \in DimacsBody} :
          LET Parsed(p) ==
                 /\ solver' = p
                 /\ result' = IF p.panic # "none" THEN "Panic"
                              ELSE IF p.err # "none" THEN p.err ELSE result
                 /\ pc' = IF p.panic # "none" \/ p.err # "none" THEN "done" ELSE pc
          IN /\ Parsed(parse_chunk(solver, chunk, 1))
             /\ given' = Append(given, chunk)
    /\ UNCHANGED <<conflict, analysis, posted, inst, call>>

\* parse_cnf: reader.fill_buf() answers no data, return parser.complete()
DimacsEof ==
    /\ pc = "dimacs"
    /\ result' = complete(solver)
    /\ pc' = "done"
    /\ call' = [NoCall EXCEPT !.op = "complete", !.n = 1]
    /\ UNCHANGED <<solver, conflict, analysis, given, posted, inst>>

NextDimacs == DimacsChunk \/ DimacsEof

SpecDimacs == InitDimacs /\ [][NextDimacs]_vars

---------------------------------------------------------------------------
(* limiga/src/domains/bitset.rs: BitSetDomain on its own.  In this             *)
(* specification solver holds the domain and given the set of the values that  *)
(* the calls made so far have left in it.  A size that would fall below zero   *)
(* aborts the call, as the subtraction of a usize does where overflow is       *)
(* checked.                                                                    *)

\* The values 0..BitMax of a domain and of the arguments of the calls.
BitMax == 3

\* BitSetDomain::new(lower_bound, upper_bound)
bitset_new(lower_bound, upper_bound) ==
    [offset |-> lower_bound, lower_bound |-> lower_bound, upper_bound |-> upper_bound,
     size |-> AbsDiff(upper_bound, lower_bound) + 1,
     values |-> [i \in 1..(AbsDiff(upper_bound, lower_bound) + 1) |-> TRUE],
     panic |-> "none"]

\* self.size -= n
SizeMinus(d, n) ==
    IF n > d.size THEN Panic(d, "attempt to subtract with overflow")
    ELSE [d EXCEPT !.size = @ - n]

\* The loops of remove: the bound moves by step while the bit at the (Rust)
\* index bit_idx is unset.
RECURSIVE MoveBound(_, _, _)
MoveBound(d, bit_idx, step) ==
    IF bit_idx < 0 \/ bit_idx >= Len(d.values) THEN Panic(d, "index out of bounds")
    ELSE IF d.values[bit_idx + 1] THEN d
    ELSE MoveBound(IF step = 1 THEN [d EXCEPT !.lower_bound = @ + 1]
                   ELSE [d EXCEPT !.upper_bound = @ - 1],
                   bit_idx + step, step)

\* DomainMut::remove: the domain and the returned flag.
bitset_remove(d, val) ==
    IF val < d.lower_bound \/ val > d.upper_bound THEN [d |-> d, ok |-> d.size > 0]
    ELSE LET bit_idx == AbsDiff(val, d.offset)
             Moved(d1) ==
                 IF d1.panic # "none" THEN [d |-> d1, ok |-> FALSE]
                 ELSE IF d1.size = 0 THEN [d |-> d1, ok |-> FALSE]
                 ELSE IF val = d1.lower_bound THEN [d |-> MoveBound(d1, bit_idx, 1), ok |-> TRUE]
                 ELSE IF val = d1.upper_bound THEN [d |-> MoveBound(d1, bit_idx, -1), ok |-> TRUE]
                 ELSE [d |-> d1, ok |-> TRUE]
         IN IF bit_idx >= Len(d.values)
            THEN [d |-> Panic(d, "index out of bounds"), ok |-> FALSE]
            ELSE Moved(SizeMinus([d EXCEPT !.values[bit_idx + 1] = FALSE],
                                 IF d.values[bit_idx + 1] THEN 1 ELSE 0))

bitset_set_max(d, val) ==
    LET Sized(d1) == IF d1.panic # "none" THEN d1 ELSE [d1 EXCEPT !.upper_bound = val]
    IN [d |-> Sized(SizeMinus(d, AbsDiff(d.upper_bound, val))), ok |-> TRUE]

bitset_set_min(d, val) ==
    LET Sized(d1) == IF d1.panic # "none" THEN d1 ELSE [d1 EXCEPT !.lower_bound = val]
    IN [d |-> Sized(SizeMinus(d, AbsDiff(val, d.lower_bound))), ok |-> TRUE]

bitset_fix(d, val) ==
    [d |-> [d EXCEPT !.size = 1, !.lower_bound = val, !.upper_bound = val], ok |-> TRUE]

\* Domain::fixed_value: <<v>> for Some(v), <<>> for None.
fixed_value(d) == IF d.size = 1 THEN <<d.lower_bound>> ELSE <<>>

InitBitSet ==
    /\ \E lo \in 0..BitMax, hi \in 0..BitMax :
          /\ lo <= hi
          /\ solver = bitset_new(lo, hi)
          /\ given = lo..hi
    /\ pc = "bitset"
    /\ conflict = 0
    /\ analysis = NoAnalysis
    /\ result = "none"
    /\ posted = <<>>
    /\ inst = -11
    /\ call = NoCall

\* One call on the domain: what is kept of it, and the values it leaves.
BitCalled(op, val, r, left) ==
    /\ solver' = r.d
    /\ given' = left
    /\ result' = IF r.d.panic # "none" THEN "Panic" ELSE IF r.ok THEN "true" ELSE "false"
    /\ pc' = IF r.d.panic # "none" \/ left = {} THEN "done" ELSE pc
    /\ call' = [NoCall EXCEPT !.op = op, !.v = val, !.n = 1]

\* domain.remove(&val)
BitRemove ==
    /\ pc = "bitset"
    /\ \E val \in 0..BitMax :
          BitCalled("remove", val, bitset_remove(solver, val), given \ {val})
    /\ UNCHANGED <<conflict, analysis, posted, inst>>

\* domain.set_max(&val)
BitSetMax ==
    /\ pc = "bitset"
    /\ \E val \in 0..BitMax :
          BitCalled("set_max", val, bitset_set_max(solver, val), {x \in given : x <= val})
    /\ UNCHANGED <<conflict, analysis, posted, inst>>

\* domain.set_min(&val)
BitSetMin ==
    /\ pc = "bitset"
    /\ \E val \in 0..BitMax :
          BitCalled("set_min", val, bitset_set_min(solver, val), {x \in given : x >= val})
    /\ UNCHANGED <<conflict, analysis, posted, inst>>

\* domain.fix(&val)
BitFix ==
    /\ pc = "bitset"
    /\ \E val \in 0..BitMax :
          BitCalled("fix", val, bitset_fix(solver, val), given \cap {val})
    /\ UNCHANGED <<conflict, analysis, posted, inst>>

NextBitSet == BitRemove \/ BitSetMax \/ BitSetMin \/ BitFix

SpecBitSet == InitBitSet /\ [][NextBitSet]_vars

---------------------------------------------------------------------------
(* The watches of the propagators: VariableRegistrar::register for a literal  *)
(* and an event, and the steps of the search that touch the watch lists,      *)
(* each as a step of its own: a decision, Solver::propagate_propositional,    *)
(* the pop of Solver::propagate's loop, and backtrack_to.  posted keeps the   *)
(* registrations, given the clauses.  The run of a popped propagator is not   *)
(* part of it: a propagator has no access to the watch lists.                 *)

WatchVars == 2
WatchRegs == 2
WatchClauses == 2

\* Solver::add_propagator with a factory whose create registers the literal
\* lit for the event: VariableRegistrar::register, Watchable for Lit.
register(s, lit, event) ==
    LET id == Len(s.propagators) + 1
        s1 == grow_to(s, id)
        s2 == watch_lit(s1, lit, id, event)
    IN [s2 EXCEPT !.propagators =
            Append(@, [kind |-> "LinearBool", x |-> <<lit>>, y |-> 0, terms |-> <<>>, rhs |-> 0])]

InitWatch ==
    /\ solver = new_lits(NewSolver, WatchVars)
    /\ pc = "watch"
    /\ conflict = 0
    /\ analysis = NoAnalysis
    /\ result = "none"
    /\ given = <<>>
    /\ posted = <<>>
    /\ inst = -12
    /\ call = NoCall

\* solver.add_clause([l1, l2]) before the search
WatchAddClause ==
    /\ pc = "watch"
    /\ solver.trail = <<>>
    /\ Len(given) < WatchClauses
    /\ \E l1, l2 \in 0..(2 * WatchVars - 1) :
          /\ var(l1) < var(l2)
          /\ solver' = add_clause(solver, <<l1, l2>>)
          /\ given' = Append(given, <<l1, l2>>)
    /\ call' = [NoCall EXCEPT !.op = "add_clause"]
    /\ UNCHANGED <<pc, conflict, analysis, result, posted, inst>>

\* solver.add_propagator(factory) before the search
WatchRegister ==
    /\ pc = "watch"
    /\ solver.trail = <<>>
    /\ Len(posted) < WatchRegs
    /\ \E lit \in 0..(2 * WatchVars - 1), event \in {"FixedTrue", "FixedFalse"} :
          /\ solver' = register(solver, lit, event)
          /\ posted' = Append(posted, [lit |-> lit, event |-> event,
                                       id |-> Len(solver.propagators) + 1])
    /\ call' = [NoCall EXCEPT !.op = "register"]
    /\ UNCHANGED <<pc, conflict, analysis, result, given, inst>>

\* The decision of the solve loop, taken at a propagation fix-point:
\* self.trail.push() and self.enqueue(lit, Reason::Decision).
WatchDecide ==
    /\ pc = "watch"
    /\ conflict = 0
    /\ solver.next_propagation_idx = Len(solver.trail)
    /\ solver.queue = <<>>
    /\ \E lit \in 0..(2 * WatchVars - 1) :
          /\ value(solver, lit) = "None"
          /\ solver' = enqueue([solver EXCEPT !.trail_delim = Append(@, Len(solver.trail)),
                                              !.current_depth = @ + 1],
                               lit, ReasonDecision).s
    /\ call' = [NoCall EXCEPT !.op = "decide"]
    /\ UNCHANGED <<pc, conflict, analysis, result, given, posted, inst>>

\* self.propagate_propositional()
WatchPropositional ==
    /\ pc = "watch"
    /\ conflict = 0
    /\ solver.next_propagation_idx < Len(solver.trail)
    /\ LET Channeled(r) ==
              /\ solver' = r.s
              /\ conflict' = r.conflict
       IN Channeled(propagate_propositional(solver))
    /\ call' = [NoCall EXCEPT !.op = "propositional"]
    /\ UNCHANGED <<pc, analysis, result, given, posted, inst>>

\* while let Some(propagator_id) = self.propagator_queue.pop()
WatchPop ==
    /\ pc = "watch"
    /\ conflict = 0
    /\ solver.next_propagation_idx = Len(solver.trail)
    /\ solver.queue # <<>>
    /\ solver' = queue_pop(solver).s
    /\ call' = [NoCall EXCEPT !.op = "pop"]
    /\ UNCHANGED <<pc, conflict, analysis, result, given, posted, inst>>

\* self.backtrack_to(level), after a conflict or to restart
WatchBacktrack ==
    /\ pc = "watch"
    /\ \E level \in 0..(Len(solver.trail_delim) - 1) :
          solver' = backtrack_to(solver, level)
    /\ conflict' = 0
    /\ call' = [NoCall EXCEPT !.op = "backtrack_to"]
    /\ UNCHANGED <<pc, analysis, result, given, posted, inst>>

NextWatch ==
    \/ WatchAddClause
    \/ WatchRegister
    \/ WatchDecide
    \/ WatchPropositional
    \/ WatchPop
    \/ WatchBacktrack

SpecWatch == InitWatch /\ [][NextWatch]_vars

---------------------------------------------------------------------------
(* integer/affine_view.rs: the bounds of the view scale * inner + offset over  *)
(* an IntInterval created with bounds lo..hi in a solver of its own: min, max, *)
(* set_min and set_max of the view.  posted keeps the view, call the last call *)
(* with its arguments and, for min and max, its results.                       *)

\* The greatest bound of the inner domain, and the calls made on one view.
AffInner == 3
AffCalls == 2

\* Affine::min and Affine::max over the inner domain d.
affine_min(view, s) == s.domains[view.inner].lower_bound * view.scale + view.offset

affine_max(view, s) == s.domains[view.inner].upper_bound * view.scale + view.offset

\* Affine::set_min and Affine::set_max, for a scale other than 0.
affine_set_min(view, s, bound, explanation) ==
    set_min(s, view.inner, div_ceil(bound - view.offset, view.scale), explanation)

affine_set_max(view, s, bound, explanation) ==
    set_max(s, view.inner, div_floor(bound - view.offset, view.scale), explanation)

InitAffineVar ==
    /\ \E lo \in 0..AffInner, hi \in 0..AffInner :
          /\ lo <= hi
          /\ solver = new_domain(NewSolver, lo, hi)
    /\ pc = "affvar"
    /\ conflict = 0
    /\ analysis = NoAnalysis
    /\ result = "none"
    /\ given = <<>>
    /\ posted = <<>>
    /\ inst = -14
    /\ call = NoCall

\* Affine::new(scale, offset, inner)
AffVarNew ==
    /\ pc = "affvar"
    /\ posted = <<>>
    /\ \E scale \in (-AffScale)..AffScale, offset \in (-AffOffset)..AffOffset :
          posted' = <<[kind |-> "affine", x |-> scale, y |-> offset]>>
    /\ UNCHANGED <<solver, pc, conflict, analysis, result, given, inst, call>>

\* view.min(ctx) and view.max(ctx)
AffVarBounds ==
    /\ pc = "affvar"
    /\ posted # <<>>
    /\ call.n < AffCalls
    /\ call' = [NoCall EXCEPT !.op = "bounds", !.n = call.n + 1,
                              !.rexpl = <<affine_min(TheView, solver),
                                          affine_max(TheView, solver)>>]
    /\ UNCHANGED <<solver, pc, conflict, analysis, result, given, posted, inst>>

\* What a call of set_min or set_max of the view leaves; a scale of 0 is a
\* division by zero.
AffVarSet(op, bound) ==
    /\ pc = "affvar"
    /\ posted # <<>>
    /\ call.n < AffCalls
    /\ LET Set(r) ==
              /\ solver' = r.s
              /\ result' = IF r.s.panic # "none" THEN "Panic"
                           ELSE IF r.err THEN "Conflict" ELSE "Ok"
              /\ pc' = IF r.s.panic # "none" \/ r.err THEN "done" ELSE pc
       IN IF TheView.scale = 0
          THEN Set([s |-> Panic(solver, "attempt to divide by zero"), err |-> FALSE])
          ELSE IF op = "set_min"
          THEN Set(affine_set_min(TheView, solver, bound, <<>>))
          ELSE Set(affine_set_max(TheView, solver, bound, <<>>))
    /\ call' = [NoCall EXCEPT !.op = op, !.d = 1, !.v = bound, !.n = call.n + 1]
    /\ UNCHANGED <<conflict, analysis, given, posted, inst>>

\* view.set_min(ctx, bound, explanation)
AffVarSetMin ==
    /\ inst = -14
    /\ \E bound \in (-AffBound)..AffBound : AffVarSet("set_min", bound)

\* view.set_max(ctx, bound, explanation)
AffVarSetMax ==
    /\ inst = -14
    /\ \E bound \in (-AffBound)..AffBound : AffVarSet("set_max", bound)

NextAffineVar == AffVarNew \/ AffVarBounds \/ AffVarSetMin \/ AffVarSetMax

SpecAffineVar == InitAffineVar /\ [][NextAffineVar]_vars

---------------------------------------------------------------------------
(* solve on the instances of clauses alone, under a terminator whose           *)
(* should_stop() answers false every time: the loop of solve takes its next    *)
(* step whenever it has one.                                                   *)

CnfInstances == (0..NumPigeonOrders) \cup {-3, -13}

InitCnf ==
    /\ Init
    /\ inst \in CnfInstances

SolveLoop ==
    \/ Propagate
    \/ RootConflict
    \/ Analyze
    \/ Backjump
    \/ AssertLearned
    \/ Decide

NextCnf == NewLit \/ AddClause \/ SolveEntry \/ SolveLoop

\* The positions inside the loop of solve.
LoopPcs == {"loop", "propagated", "analyzed", "backtracked"}

\* The thread inside the loop of solve moves on: every step of SolveLoop
\* changes the position, and no other step is taken from a position of the
\* loop.
SolveAdvances ==
    /\ pc \in LoopPcs
    /\ pc' \in LoopPcs \cup {"done"}

SpecCnf == InitCnf /\ [][NextCnf]_vars /\ WF_pc(SolveAdvances)

---------------------------------------------------------------------------
(* limiga/src/solver.rs: the constraint solver over BitSetDomain variables     *)
(* with not_eq propagators, searched by Search::new(FirstFail::new(vars),      *)
(* DomainMin) over all its variables.  Variable v has the index v - 1 in       *)
(* Domains::bitsets and the global id v.  given keeps the bounds the           *)
(* variables were created with and posted the constraints.                     *)

\* Variables, the greatest value of a domain, and posted constraints.
CpSolverVars == 3
CpMaxValue == 2
CpPosts == 2

\* Solver::default()
NewCpSolver ==
    [bitsets |-> <<>>, history |-> <<>>, next_global_id |-> 0, updated_domains |-> <<>>,
     propagators |-> <<>>, state |-> "Finished", action_queue |-> <<>>,
     buffer |-> <<>>, watch_list |-> <<>>, panic |-> "none"]

\* Solver::new_int_var(BitSetDomain::new(lo, hi)): Domains::alloc and
\* PropagatorQueue::on_new_domain, which resizes the watch lists to id + 1.
new_int_var(s, lo, hi) ==
    LET id == s.next_global_id + 1 IN
    [s EXCEPT !.bitsets = Append(@, bitset_new(lo, hi)),
              !.next_global_id = id,
              !.watch_list = IF Len(@) >= id + 1 THEN SubSeq(@, 1, id + 1)
                             ELSE @ \o [i \in 1..(id + 1 - Len(@)) |-> <<>>]]

\* DomainRefMut::wrap around the call r on the domain of variable v.
wrap(s, v, r) ==
    IF r.d.panic # "none" THEN [s |-> Panic(s, r.d.panic), ok |-> FALSE]
    ELSE [s |-> [s EXCEPT !.bitsets[v] = r.d,
                          !.updated_domains =
                              IF r.ok /\ s.bitsets[v].size > r.d.size THEN Append(@, v) ELSE @],
          ok |-> r.ok]

\* IntVar::remove and IntVar::fix
var_remove(s, v, val) == wrap(s, v, bitset_remove(s.bitsets[v], val))

var_fix(s, v, val) == wrap(s, v, bitset_fix(s.bitsets[v], val))

\* not_eq.rs
propagate_one_direction(s, a, b) ==
    IF fixed_value(s.bitsets[a]) # <<>>
    THEN var_remove(s, b, fixed_value(s.bitsets[a])[1])
    ELSE [s |-> s, ok |-> TRUE]

\* NotEq::propagate
not_eq_propagate(s, p) ==
    LET Second(r) == IF ~r.ok THEN r ELSE propagate_one_direction(r.s, p.b, p.a)
    IN Second(propagate_one_direction(s, p.a, p.b))

\* Solver::react_to_updated_domains: PropagatorQueue::react for every drained
\* domain, from the k-th on.
RECURSIVE react_to_updated_domains(_, _)
react_to_updated_domains(s, k) ==
    IF k > Len(s.updated_domains) THEN [s EXCEPT !.updated_domains = <<>>]
    ELSE react_to_updated_domains(
             [s EXCEPT !.buffer = @ \o s.watch_list[s.updated_domains[k] + 1]], k + 1)

\* Solver::propagate
RECURSIVE cp_propagate(_)
cp_propagate(s) ==
    IF s.buffer = <<>> THEN [s |-> s, ok |-> TRUE]
    ELSE LET Ran(r) == IF ~r.ok THEN r
                       ELSE cp_propagate(react_to_updated_domains(r.s, 1))
         IN Ran(not_eq_propagate([s EXCEPT !.buffer = Tail(@)],
                                 s.propagators[Head(s.buffer)]))

\* Solver::post(not_eq(a, b)): the registration of both variables, the first
\* run of the propagator and Solver::propagate.
post(s, a, b) ==
    LET id == Len(s.propagators) + 1
        s1 == [s EXCEPT !.propagators = Append(@, [a |-> a, b |-> b]),
                        !.watch_list[a + 1] = Append(@, id)]
        s2 == [s1 EXCEPT !.watch_list[b + 1] = Append(@, id)]
        First(r) == IF ~r.ok THEN r ELSE cp_propagate(r.s)
    IN First(not_eq_propagate(s2, s2.propagators[id]))

\* FirstFail::select: the first variable of the least size above 1, 0 for None.
first_fail_select(s) ==
    LET open == {v \in 1..Len(s.bitsets) : s.bitsets[v].size > 1}
    IN IF open = {} THEN 0
       ELSE CHOOSE v \in open :
               \A u \in open : \/ s.bitsets[v].size < s.bitsets[u].size
                               \/ s.bitsets[v].size = s.bitsets[u].size /\ v <= u

\* Solver::add_branches with the branches of DomainMin::partition: the queue
\* gets Backtrack and then, each at the front, the fix and the remove branch.
add_branches(s) ==
    LET v == first_fail_select(s)
        val == s.bitsets[v].lower_bound
    IN IF v = 0 THEN [s |-> s, ok |-> FALSE]
       ELSE [s |-> [s EXCEPT !.action_queue =
                        <<[kind |-> "Branch", op |-> "remove", v |-> v, val |-> val],
                          [kind |-> "Branch", op |-> "fix", v |-> v, val |-> val],
                          [kind |-> "Backtrack", op |-> "none", v |-> 0, val |-> 0]>> \o @],
             ok |-> TRUE]

\* Domains::push and Domains::pop
domains_push(s) == [s EXCEPT !.history = Append(@, s.bitsets)]

domains_pop(s) ==
    IF s.history = <<>> THEN s
    ELSE [s EXCEPT !.bitsets = s.history[Len(s.history)],
                   !.history = SubSeq(@, 1, Len(@) - 1)]

\* Solver::next_solution
RECURSIVE next_solution(_)
next_solution(s) ==
    IF s.panic # "none" THEN s
    ELSE IF s.action_queue = <<>> THEN [s EXCEPT !.state = "Finished"]
    ELSE LET action == Head(s.action_queue)
             s1 == [s EXCEPT !.action_queue = Tail(@)]
             Branched(r) ==
                 IF r.ok THEN next_solution(r.s)
                 ELSE [r.s EXCEPT !.state = "Solution"]
             Propagated(r) ==
                 IF r.s.panic # "none" THEN r.s
                 ELSE IF ~r.ok THEN next_solution(domains_pop(r.s))
                 ELSE Branched(add_branches(r.s))
             Applied(r) ==
                 IF r.s.panic # "none" THEN r.s
                 ELSE Propagated(cp_propagate(react_to_updated_domains(r.s, 1)))
         IN IF action.kind = "Backtrack" THEN next_solution(domains_pop(s1))
            ELSE IF action.op = "fix"
            THEN Applied(var_fix(domains_push(s1), action.v, action.val))
            ELSE Applied(var_remove(domains_push(s1), action.v, action.val))

\* Solver::solve: the solver it leaves; the outcome is Satisfiable if its
\* state is Solution.
cp_solve(s) == next_solution(add_branches(s).s)

InitCp ==
    /\ solver = NewCpSolver
    /\ pc = "cp"
    /\ conflict = 0
    /\ analysis = NoAnalysis
    /\ result = "none"
    /\ given = <<>>
    /\ posted = <<>>
    /\ inst = -15
    /\ call = NoCall

\* solver.new_int_var(BitSetDomain::new(lo, hi))
CpNewIntVar ==
    /\ pc = "cp"
    /\ posted = <<>>
    /\ Len(solver.bitsets) < CpSolverVars
    /\ \E lo \in 0..CpMaxValue, hi \in 0..CpMaxValue :
          /\ lo <= hi
          /\ solver' = new_int_var(solver, lo, hi)
          /\ given' = Append(given, <<lo, hi>>)
    /\ UNCHANGED <<pc, conflict, analysis, result, posted, inst, call>>

\* solver.post(not_eq(a, b)); its result is kept in call.err.
CpPost ==
    /\ pc = "cp"
    /\ Len(posted) < CpPosts
    /\ \E a \in 1..Len(solver.bitsets), b \in 1..Len(solver.bitsets) :
          /\ a < b
          /\ LET Posted(r) ==
                    /\ solver' = r.s
                    /\ call' = [NoCall EXCEPT !.op = "post", !.err = ~r.ok]
                    /\ IF r.s.panic # "none"
                       THEN pc' = "done" /\ result' = "Panic"
                       ELSE UNCHANGED <<pc, result>>
             IN Posted(post(solver, a, b))
          /\ posted' = Append(posted, [kind |-> "not_eq", x |-> a, y |-> b])
    /\ UNCHANGED <<conflict, analysis, given, inst>>

\* solver.solve(Search::new(FirstFail::new(vars), DomainMin))
CpSolve ==
    /\ pc = "cp"
    /\ solver.bitsets # <<>>
    /\ LET Solved(s) ==
              /\ solver' = s
              /\ result' = IF s.panic # "none" THEN "Panic"
                           ELSE IF s.state = "Solution" THEN "Satisfiable"
                           ELSE "Unsatisfiable"
       IN Solved(cp_solve(solver))
    /\ pc' = "done"
    /\ call' = [NoCall EXCEPT !.op = "solve"]
    /\ UNCHANGED <<conflict, analysis, given, posted, inst>>

NextCp == CpNewIntVar \/ CpPost \/ CpSolve

SpecCp == InitCp /\ [][NextCp]_vars

---------------------------------------------------------------------------
(* Vocabulary of the properties. *)

Vars == 0..(solver.next_var_code - 1)

Assigned(s, v) == s.assignment[v + 1] # "U"

\* The level below the root at which the trail position i was enqueued.
LevelOfPos(s, i) == Cardinality({k \in 1..Len(s.trail_delim) : s.trail_delim[k] < i})

\* A total assignment, as the set of the variables it makes true.
Satisfies(m, clause) ==
    \E i \in 1..Len(clause) : is_positive(clause[i]) = (var(clause[i]) \in m)

HasModel == \E m \in SUBSET Vars : \A n \in 1..Len(given) : Satisfies(m, given[n])

AtFixpoint == pc = "propagated" /\ conflict = 0

AfterExternalCall == pc \in {"setup", "done"} /\ result # "Panic"

NonFalse(s, clause) == {i \in 1..Len(clause) : value(s, clause[i]) # "False"}

---------------------------------------------------------------------------
(* Properties of the SAT engine. *)

\* C1: when solve answers Satisfiable, every allocated variable is assigned and
\* every clause that was handed to add_clause has a literal that is true.
C1_ModelSatisfiesClauses ==
    result = "Satisfiable" =>
        /\ \A v \in Vars : Assigned(solver, v)
        /\ \A n \in 1..Len(given) :
              \E i \in 1..Len(given[n]) : value(solver, given[n][i]) = "True"

C1_Witness ==
    /\ result = "Satisfiable"
    /\ Len(given) >= 3
    /\ solver.brancher.activity_increment < ActivityOne

\* C2: solve answers Unsatisfiable only when the clauses handed to add_clause
\* have no satisfying assignment, and the pigeon-hole instance, once all its
\* clauses are posted and the search is not stopped, is answered Unsatisfiable.
C2_UnsatIsSound ==
    /\ (result = "Unsatisfiable" /\ posted = <<>>) => ~HasModel
    /\ (pc = "done" /\ inst > 0 /\ Len(given) = Len(PigeonClauses(inst))
            /\ result # "Unknown") => result = "Unsatisfiable"

C2_Witness ==
    /\ result = "Unsatisfiable"
    /\ inst > 0
    /\ Len(given) = Len(PigeonClauses(inst))
    /\ solver.brancher.activity_increment < ActivityOne

\* C4: after every external call and at every propagation fix-point no literal
\* occurs twice on the trail and the trail is as long as the number of
\* assigned variables.
C4_TrailHasNoDuplicates ==
    (AfterExternalCall \/ AtFixpoint) =>
        /\ \A i, j \in 1..Len(solver.trail) : solver.trail[i] = solver.trail[j] => i = j
        /\ Len(solver.trail) = Cardinality({v \in Vars : Assigned(solver, v)})

\* C5: backtrack_to(k) unassigns exactly the variables assigned above level k,
\* keeps the trail up to level k as it was, and leaves the depth at k.
C5_BacktrackStep ==
    (pc = "analyzed" /\ pc' = "backtracked") =>
        LET k == analysis.backjump_level
            keep == solver.trail_delim[k + 1]
        IN /\ solver'.current_depth = k
           /\ Len(solver'.trail_delim) = k
           /\ solver'.trail = SubSeq(solver.trail, 1, keep)
           /\ \A i \in 1..Len(solver.trail) : (LevelOfPos(solver, i) <= k) = (i <= keep)
           /\ \A v \in Vars :
                 IF \E i \in 1..keep : var(solver.trail[i]) = v
                 THEN solver'.assignment[v + 1] = solver.assignment[v + 1]
                 ELSE ~Assigned(solver', v)
           /\ \A v \in Vars :
                 Assigned(solver, v) =>
                    (solver.decided_at[v + 1] > k) = ~Assigned(solver', v)

C5_Backtrack == [][C5_BacktrackStep]_vars

\* C6: at every propagation fix-point, an original or learned clause all of
\* whose literals but one are false has that one literal true.
C6_NoPendingUnit ==
    AtFixpoint =>
        \A c \in 1..Len(solver.clauses) :
            (solver.kinds[c] # "explanation"
                /\ Cardinality(NonFalse(solver, solver.clauses[c])) = 1) =>
                \A i \in NonFalse(solver, solver.clauses[c]) :
                    value(solver, solver.clauses[c][i]) = "True"

\* C7: for every assigned variable whose reason is a clause, the variable's
\* true literal is the first literal of that clause and all the clause's other
\* literals are false.
C7_ReasonClauseShape ==
    \A v \in Vars :
        (Assigned(solver, v) /\ solver.reasons[v + 1].kind = "Clause") =>
            LET c == solver.clauses[solver.reasons[v + 1].ref] IN
            /\ var(c[1]) = v
            /\ value(solver, c[1]) = "True"
            /\ \A i \in 2..Len(c) : value(solver, c[i]) = "False"

\* C9: the clause analyze derives has exactly one literal of the conflict
\* level, at its first position, and that literal is true once the solver has
\* backjumped and enqueued it.
C9_AssertingLiteralStep ==
    /\ (pc = "propagated" /\ pc' = "analyzed") =>
          LET lc == analysis'.learned_clause IN
          /\ lc # <<>>
          /\ {i \in 1..Len(lc) : solver.decided_at[var(lc[i]) + 1] = solver.current_depth}
                = {1}
          /\ \A i \in 1..Len(lc) : value(solver, lc[i]) = "False"
    /\ (pc = "backtracked" /\ pc' = "loop") =>
          /\ value(solver, analysis.learned_clause[1]) = "None"
          /\ value(solver', analysis.learned_clause[1]) = "True"

C9_AssertingLiteral == [][C9_AssertingLiteralStep]_vars

C9_Witness ==
    /\ pc = "loop"
    /\ Len(analysis.learned_clause) >= 2
    /\ solver.trail # <<>>
    /\ solver.trail[Len(solver.trail)] = analysis.learned_clause[1]
    /\ solver.reasons[var(analysis.learned_clause[1]) + 1].kind = "Clause"

\* The greatest level among the literals after the first one, 0 if there is none.
MaxOtherLevel(s, lc) ==
    LET levels == {s.decided_at[var(lc[i]) + 1] : i \in 2..Len(lc)} \cup {0}
    IN CHOOSE m \in levels : \A l \in levels : l <= m

\* C10: the backjump level is at least 0 and below the current depth, it is
\* the greatest level among the non-asserting literals (0 if there are none),
\* a literal of that level is the second literal, and after the backtrack
\* every literal but the first is false.
C10_BackjumpLevel ==
    /\ pc = "analyzed" =>
          /\ analysis.backjump_level >= 0
          /\ analysis.backjump_level < solver.current_depth
          /\ analysis.backjump_level = MaxOtherLevel(solver, analysis.learned_clause)
          /\ Len(analysis.learned_clause) >= 2 =>
                solver.decided_at[var(analysis.learned_clause[2]) + 1]
                    = analysis.backjump_level
    /\ pc = "backtracked" =>
          /\ solver.current_depth = analysis.backjump_level
          /\ \A i \in 2..Len(analysis.learned_clause) :
                value(solver, analysis.learned_clause[i]) = "False"

C10_Witness ==
    /\ pc = "backtracked"
    /\ Len(analysis.learned_clause) >= 3
    /\ analysis.backjump_level >= 2
    /\ solver.decided_at[var(analysis.learned_clause[3]) + 1] < analysis.backjump_level

---------------------------------------------------------------------------
(* Properties of the integer domains and the linear constraint. *)

\* The literal created for "x >= v", whatever the bounds have become since.
BoundLit(dom, v) == dom.literals[Min2(AbsDiff(v, dom.origin), Len(dom.literals) - 1) + 1]

CountTrue(s, x) == Cardinality({i \in 1..Len(x) : value(s, x[i]) = "True"})

\* The domain was created with equal bounds.
IsFixed(dom) == Len(dom.literals) = 2

\* C3: with x_1..x_n and a domain y fixed to r posted through bool_lin_eq,
\* every solution has exactly r of the x_i true, and when the constraint is
\* the only one and r is at most n, a search that is not stopped answers
\* Satisfiable.
C3_BoolLinEq ==
    \A n \in 1..Len(posted) :
        (posted[n].kind = "eq" /\ IsFixed(solver.domains[posted[n].y])) =>
            /\ result = "Satisfiable" =>
                  CountTrue(solver, posted[n].x) = solver.domains[posted[n].y].origin
            /\ (pc = "done" /\ result # "Unknown" /\ Len(posted) = 1 /\ given = <<>>
                    /\ solver.domains[posted[n].y].origin <= Len(posted[n].x))
                  => result = "Satisfiable"

\* C8: after every external call, at every propagation fix-point and after
\* every backtrack, every domain has lo <= hi, the literal of "x >= lo" true
\* and the literal of "x >= hi + 1" false.
C8_DomainBoundsChanneled ==
    (AfterExternalCall \/ AtFixpoint \/ pc = "backtracked") =>
        \A d \in 1..Len(solver.domains) :
            LET dom == solver.domains[d] IN
            /\ dom.lower_bound <= dom.upper_bound
            /\ value(solver, BoundLit(dom, dom.lower_bound)) = "True"
            /\ value(solver, BoundLit(dom, dom.upper_bound + 1)) = "False"

---------------------------------------------------------------------------
(* Properties of the conflict branch and of the entry of solve. *)

\* The messages of the two assertions of ConflictAnalyzer::analyze.
AnalyzerAssertions ==
    {"At least one literal has to have been assigned at the current decision level.",
     "the propagated literal is at the first position in the clause"}

\* C11: for every conflict that solve hands to the analyzer below the root,
\* analyze completes: neither the assertion that a literal of the working
\* clause is of the current level nor the assertion that a resolved literal is
\* the first of its reason trips.
C11_AnalysisStep ==
    (pc = "propagated" /\ conflict # 0 /\ solver.current_depth > 0) =>
        /\ analyze(solver, conflict).panic \notin AnalyzerAssertions
        /\ pc' = "analyzed"

C11_AnalysisCompletes == [][C11_AnalysisStep]_vars

\* C12: an add_clause whose clause is empty, or is a unit clause whose literal
\* is false at the root, puts the solver into the root-conflict state; in that
\* state add_clause changes nothing and solve answers Unsatisfiable at once,
\* without a loop iteration.
C12_RootConflictStep ==
    /\ (pc = "setup" /\ given' # given) =>
          LET c == given'[Len(given')] IN
          /\ solver.state = "ConflictAtRoot" => solver' = solver
          /\ (solver.state # "ConflictAtRoot"
                /\ \/ c = <<>>
                   \/ Cardinality(Range(c)) = 1 /\ value(solver, c[1]) = "False")
                => solver'.state = "ConflictAtRoot"
    /\ (pc = "setup" /\ pc' # pc /\ solver.state = "ConflictAtRoot") =>
          /\ pc' = "done"
          /\ result' = "Unsatisfiable"
          /\ solver' = solver

C12_RootConflict == [][C12_RootConflictStep]_vars

C12_Witness ==
    /\ result = "Unsatisfiable"
    /\ solver.state = "ConflictAtRoot"
    /\ solver.trail_delim = <<>>
    /\ Len(given) >= 3
    /\ Len(given[1]) = 1
    /\ given[2] = <<not(given[1][1])>>

\* C13: the terminator is consulted at the top of every loop iteration, before
\* propagate: propagation starts only from the top of the loop, where the
\* answer true is possible, and on that answer solve returns Unknown with the
\* solver as it was, without a propagation, an analysis or a decision.
C13_TerminatorStep ==
    /\ pc = "loop" => ENABLED Stop
    /\ pc' = "propagated" => pc = "loop"
    /\ (pc' = "loop" /\ pc # "loop") => pc \in {"setup", "propagated", "backtracked"}
    /\ (result' = "Unknown" /\ result # "Unknown") =>
          /\ pc = "loop"
          /\ pc' = "done"
          /\ solver' = solver
          /\ conflict' = conflict
          /\ analysis' = analysis

C13_Terminator == [][C13_TerminatorStep]_vars

C13_Witness ==
    /\ result = "Unknown"
    /\ solver.current_depth > 0
    /\ solver.next_propagation_idx < Len(solver.trail)
    /\ solver.brancher.activity_increment < ActivityOne

---------------------------------------------------------------------------
(* Properties of the propagator queue. *)

\* C14: after any sequence of push and pop the queue holds every id at most
\* once, the membership bit of an id is set exactly when the id is queued, and
\* the push of a queued id changes nothing.
C14_QueueIsSet ==
    /\ \A i, j \in 1..Len(solver.queue) : solver.queue[i] = solver.queue[j] => i = j
    /\ \A id \in 1..Len(solver.present) : solver.present[id] <=> id \in Range(solver.queue)
    /\ \A id \in Range(solver.queue) : queue_push(solver, id) = solver

C14_Witness ==
    /\ pc = "queue"
    /\ Len(solver.queue) >= 3
    /\ solver.queue[1] > solver.queue[2]
    /\ \E id \in 1..Len(solver.present) : ~solver.present[id]

\* C15: propagators run in the order of their insertion: a pop removes the id
\* that was pushed first among the queued ones.
C15_FifoStep ==
    (pc = "queue" /\ Len(solver'.queue) < Len(solver.queue)) =>
        solver'.queue = Tail(solver.queue)

C15_FifoOrder == [][C15_FifoStep]_vars

---------------------------------------------------------------------------
(* Properties of IntInterval. *)

\* The greatest value of the range the domain was created with.
OriginMax(dom) == dom.origin + Len(dom.literals) - 2

\* C16: for every value v of the range a domain was created with, and for the
\* value above it, lower_bound_lit(v) is the literal allocated for "x >= v",
\* and upper_bound_lit(v - 1) is its negation, whatever set_min and set_max
\* calls the domain has seen.
C16_BoundLiterals ==
    \A d \in 1..Len(solver.domains) :
        LET dom == solver.domains[d] IN
        \A v \in dom.origin..(OriginMax(dom) + 1) :
            /\ lower_bound_lit(dom, v) = dom.literals[v - dom.origin + 1]
            /\ upper_bound_lit(dom, v - 1) = not(dom.literals[v - dom.origin + 1])

\* A call of op has just returned.
Called(op) == call' # call /\ call'.op = op

\* C17: set_min(v) with v above the upper bound and set_max(v) with v below the
\* lower bound return a Conflict that carries the caller's explanation, and no
\* call of set_min or set_max aborts or leaves a domain with lo > hi.
C17_SetBoundStep ==
    (Called("set_min") \/ Called("set_max")) =>
        LET d == call'.d
            v == call'.v
        IN /\ result' # "Panic"
           /\ solver'.domains[d].lower_bound <= solver'.domains[d].upper_bound
           /\ (\/ call'.op = "set_min" /\ v > solver.domains[d].upper_bound
               \/ call'.op = "set_max" /\ v < solver.domains[d].lower_bound)
                 => /\ result' = "Conflict"
                    /\ call'.err
                    /\ call'.rexpl = call'.expl

C17_SetBoundFails == [][C17_SetBoundStep]_vars

---------------------------------------------------------------------------
(* Properties of the linear propagators. *)

\* The bound c - (s - min(x_k)) of term k, with s the sum of the lower bounds.
LeqTarget(s, p, k) ==
    p.rhs - (SumMin(s, p.terms, 1) - s.domains[p.terms[k]].lower_bound)

\* C18: when no bound c - (s - min(x_k)) lies below the lower bound of its
\* term, LinearLeq::propagate returns Ok, afterwards the upper bound of every
\* term is at most that bound, and the literal of a tightened bound has the
\* lower-bound atoms of all other terms as its explanation.
C18_LinearLeqStep ==
    (Called("propagate") /\ inst = -4) =>
        LET p == solver.propagators[call'.id]
            K == 1..Len(p.terms)
            lb(k) == solver.domains[p.terms[k]].lower_bound
        IN (\A k \in K : LeqTarget(solver, p, k) >= lb(k)) =>
              /\ result' = "Ok"
              /\ \A k \in K :
                    solver'.domains[p.terms[k]].upper_bound <= LeqTarget(solver, p, k)
              /\ \A k \in K :
                    LeqTarget(solver, p, k) < solver.domains[p.terms[k]].upper_bound =>
                        LET l == not(BoundLit(solver.domains[p.terms[k]],
                                              LeqTarget(solver, p, k) + 1))
                        IN /\ value(solver', l) = "True"
                           /\ solver'.reasons[var(l) + 1].kind = "Explanation"
                           /\ Range(solver'.reasons[var(l) + 1].expl)
                                = {AtLeast(p.terms[i], lb(i)) : i \in K \ {k}}

C18_LinearLeqTightens == [][C18_LinearLeqStep]_vars

\* C19: with x, y, z created over [0, 5], x + y + z <= 4, x >= 3 and y >= 2,
\* LinearLeq::propagate returns a conflict, x and y keep lo <= hi, and the
\* conflict clause has three literals, the negations of the literals of
\* "x >= 3", "y >= 2" and "z >= 0".
C19_OverflowStep ==
    (/\ Called("propagate")
     /\ inst = -4
     /\ Len(solver.domains) = 3
     /\ solver.propagators[call'.id].rhs = 4
     /\ \A d \in 1..3 : solver.domains[d].upper_bound = 5
     /\ solver.domains[1].lower_bound = 3
     /\ solver.domains[2].lower_bound = 2
     /\ solver.domains[3].lower_bound = 0) =>
        /\ result' = "Conflict"
        /\ \A d \in 1..2 : solver'.domains[d].lower_bound <= solver'.domains[d].upper_bound
        /\ conflict' \in 1..Len(solver'.clauses)
        /\ Len(solver'.clauses[conflict']) = 3
        /\ Range(solver'.clauses[conflict'])
             = {not(BoundLit(solver.domains[1], 3)), not(BoundLit(solver.domains[2], 2)),
                not(BoundLit(solver.domains[3], 0))}

C19_OverflowConflict == [][C19_OverflowStep]_vars

\* C20: with t of the x_i true at the call, a LinearBool::propagate that
\* returns Ok leaves min(y) >= t and, if t = max(y), every x_j that was
\* unassigned false with the explanation "y <= t" and the true x_i; with
\* t > max(y) it returns a conflict; it returns one of the two and never aborts.
C20_LinearBoolStep ==
    (Called("propagate") /\ inst = -5) =>
        LET p == solver.propagators[call'.id]
            t == CountTrue(solver, p.x)
            true_lits == SelectSeq(p.x, LAMBDA l : value(solver, l) = "True")
            y_max == solver.domains[p.y].upper_bound
        IN /\ call'.err \/ result' = "Ok"
           /\ result' = "Ok" => solver'.domains[p.y].lower_bound >= t
           /\ (result' = "Ok" /\ t = y_max) =>
                 \A j \in 1..Len(p.x) :
                    value(solver, p.x[j]) = "None" =>
                       /\ value(solver', p.x[j]) = "False"
                       /\ solver'.reasons[var(p.x[j]) + 1]
                            = from_explanation(not(p.x[j]),
                                <<AtMost(p.y, t)>>
                                    \o [i \in 1..Len(true_lits) |-> AtomLit(true_lits[i])])
           /\ t > y_max => call'.err

C20_LinearBoolBounds == [][C20_LinearBoolStep]_vars

---------------------------------------------------------------------------
(* Properties of the brancher, the preprocessor and the trail. *)

\* The positions of the trail whose literal was enqueued with more than k level
\* marks set, in increasing order.
AboveLevel(k) ==
    SelectSeq([i \in 1..Len(solver.trail) |-> i], LAMBDA i : given[i] > k)

Reverse(seq) == [i \in 1..Len(seq) |-> seq[Len(seq) + 1 - i]]

\* C25: Trail::backtrack_to(k) with at least k + 1 level marks set keeps the
\* literals enqueued before the (k + 1)-th mark as they were, removes the ones
\* enqueued after it, yields the removed literals once each, the last enqueued
\* first, and keeps the first k level marks only.
C25_TrailStep ==
    (Called("backtrack_to") /\ call'.v < Len(solver.trail_delim)) =>
        LET k == call'.v
            removed == AboveLevel(k)
            kept == Len(solver.trail) - Len(removed)
        IN /\ result' = "Ok"
           /\ \A i \in 1..Len(solver.trail) : (i > kept) = (given[i] > k)
           /\ solver'.trail = SubSeq(solver.trail, 1, kept)
           /\ call'.rexpl = Reverse([i \in 1..Len(removed) |-> solver.trail[removed[i]]])
           /\ solver'.trail_delim = SubSeq(solver.trail_delim, 1, k)

C25_TrailBacktrack == [][C25_TrailStep]_vars

C25_Witness ==
    /\ call.op = "backtrack_to"
    /\ call.v = 1
    /\ Len(call.rexpl) >= 3
    /\ call.rexpl[1] # call.rexpl[2]
    /\ Len(solver.trail) >= 2
    /\ Len(solver.trail_delim) = 1
    /\ solver.trail_delim[1] = 1

\* C21: in every state of the solver, every unassigned variable is in the heap
\* of the brancher, so also the ones backtracking unassigned; next_decision
\* returns a literal only if it is unassigned, and returns None only if every
\* variable is assigned.
C21_NextDecision ==
    /\ \A v \in Vars :
          is_unassigned(solver, positive(v)) => solver.brancher.position[v + 1] # -1
    /\ LET d == next_decision(solver.brancher, solver)
       IN /\ d.lit # -1 => d.lit \in 0..(2 * solver.next_var_code - 1)
                           /\ is_unassigned(solver, d.lit)
          /\ d.lit = -1 => \A v \in Vars : Assigned(solver, v)

C21_Witness ==
    /\ pc = "propagated"
    /\ conflict = 0
    /\ analysis.learned_clause # <<>>
    /\ solver.current_depth >= 1
    /\ \E v \in Vars :
          /\ var(analysis.learned_clause[1]) # v
          /\ solver.decided_at[v + 1] > solver.current_depth
          /\ is_unassigned(solver, positive(v))
          /\ next_decision(solver.brancher, solver).lit = positive(v)

\* C22: when preprocess returns Lits, the literals it returns hold no literal
\* twice and no literal that is false under the assignment, and they are all
\* the literals of the candidate that are not false.
C22_PreprocessStep ==
    (Called("preprocess") /\ ~call'.err) =>
        LET input == call'.expl
            out == call'.rexpl
        IN /\ \A i, j \in 1..Len(out) : i # j => out[i] # out[j]
           /\ \A i \in 1..Len(out) : value(solver, out[i]) # "False"
           /\ Range(out) = {l \in Range(input) : value(solver, l) # "False"}

C22_PreprocessLits == [][C22_PreprocessStep]_vars

\* C23: preprocess returns Satisfiable exactly when the candidate holds a
\* literal that is true under the assignment or holds a literal together with
\* its negation, in any order and with any repetition of the literals.
C23_SatisfiableStep ==
    Called("preprocess") =>
        LET input == call'.expl
        IN call'.err <=> \E l \in Range(input) :
                            \/ value(solver, l) = "True"
                            \/ not(l) \in Range(input)

C23_Satisfiable == [][C23_SatisfiableStep]_vars

C23_Witness ==
    /\ call.op = "preprocess"
    /\ call.err
    /\ Len(call.expl) = 4
    /\ \A i \in 1..4 : value(solver, call.expl[i]) # "True"
    /\ call.expl[1] = not(call.expl[4])
    /\ call.expl[2] = call.expl[4]
    /\ var(call.expl[3]) > var(call.expl[1])

---------------------------------------------------------------------------
(* Properties of the affine view and of the literals. *)

\* q >= n / a and q <= n / a over the rationals, for a # 0.
GeqQuot(q, n, a) == IF a > 0 THEN a * q >= n ELSE a * q <= n

LeqQuot(q, n, a) == IF a > 0 THEN a * q <= n ELSE a * q >= n

\* q is the least integer that is at least n / a; the greatest that is at most.
IsCeil(q, n, a) == GeqQuot(q, n, a) /\ ~GeqQuot(q - 1, n, a)

IsFloor(q, n, a) == LeqQuot(q, n, a) /\ ~LeqQuot(q + 1, n, a)

\* C24: for a view a * x + offset with a # 0 and a bound b: with a > 0
\* lower_bound_atom(b) is "x >= ceil((b - offset) / a)" and upper_bound_atom(b)
\* is "x <= floor((b - offset) / a)"; with a < 0 lower_bound_atom(b) is
\* "x <= floor((b - offset) / a)" and upper_bound_atom(b) is
\* "x >= ceil((b - offset) / a)".
C24_AffineStep ==
    ((Called("lower_bound_atom") \/ Called("upper_bound_atom")) /\ TheView.scale # 0) =>
        LET a == TheView.scale
            n == call'.v - TheView.offset
            atom == call'.rexpl[1]
            lower == call'.op = "lower_bound_atom"
        IN /\ result' # "Panic"
           /\ atom.d = TheView.inner
           /\ IF lower = (a > 0)
              THEN atom.kind = "AtLeast" /\ IsCeil(atom.v, n, a)
              ELSE atom.kind = "AtMost" /\ IsFloor(atom.v, n, a)

C24_AffineAtoms == [][C24_AffineStep]_vars

C24_Witness ==
    /\ call.op = "lower_bound_atom"
    /\ posted # <<>>
    /\ posted[1].x < -1
    /\ posted[1].y # 0
    /\ call.v - posted[1].y > 0
    /\ (call.v - posted[1].y) % (-posted[1].x) # 0
    /\ call.rexpl = <<AtMost(1, -((call.v - posted[1].y) \div (-posted[1].x)) - 1)>>

\* C26: for every literal l, !!l = l, var(!l) = var(l) and exactly one of l and
\* !l is positive; for every variable v, Lit::positive(v) and Lit::negative(v)
\* have the variable v and each is the negation of the other.
C26_LitAlgebra ==
    /\ call.op = "not" =>
          /\ call.rexpl[1] = call.v
          /\ call.rexpl[3] = call.rexpl[2]
          /\ call.expl[1] # call.expl[2]
    /\ call.op = "lit" =>
          /\ call.rexpl[3] = call.v
          /\ call.rexpl[4] = call.v
          /\ call.rexpl[5] = call.rexpl[2]
          /\ call.rexpl[6] = call.rexpl[1]

C26_Witness ==
    /\ call.op = "not"
    /\ call.expl = <<TRUE, FALSE>>
    /\ call.rexpl[2] = LitVars - 1
    /\ call.lit # call.v

---------------------------------------------------------------------------
(* Properties of the DIMACS parser and of the bit-set domain. *)

\* The bytes of the source read so far.
RECURSIVE Source(_)
Source(chunks) == IF chunks = <<>> THEN <<>> ELSE chunks[1] \o Source(Tail(chunks))

\* The number of literals of the source after the last terminating 0, the
\* literal the source ends in included.  Lines whose first byte other than
\* whitespace is 'c' or 'p' are comments and the header; mode is "start" at the
\* start of a line, "skip" inside such a line and "mid" otherwise; cur is the
\* number of bytes of the token being read and zero tells that it is "0".
RECURSIVE OpenLiterals(_, _, _, _, _, _)
OpenLiterals(text, i, mode, cur, zero, open) ==
    LET after == IF cur = 0 THEN open ELSE IF zero THEN 0 ELSE open + 1 IN
    IF i > Len(text) THEN after
    ELSE IF text[i] = "\n" THEN OpenLiterals(text, i + 1, "start", 0, FALSE, after)
    ELSE IF mode = "skip" THEN OpenLiterals(text, i + 1, "skip", 0, FALSE, open)
    ELSE IF text[i] = " " THEN OpenLiterals(text, i + 1, mode, 0, FALSE, after)
    ELSE IF mode = "start" /\ text[i] \in {"c", "p"}
         THEN OpenLiterals(text, i + 1, "skip", 0, FALSE, open)
    ELSE OpenLiterals(text, i + 1, "mid", cur + 1, cur = 0 /\ text[i] = "0", open)

\* C27: when the source ends after a header, with literals read since the last
\* terminating 0 or with the last literal cut short, parse_cnf returns the
\* error UnterminatedClause.
C27_UnterminatedStep ==
    (/\ Called("complete")
     /\ solver.has_sink
     /\ OpenLiterals(Source(given), 1, "start", 0, FALSE, 0) > 0)
        => result' = "UnterminatedClause"

C27_UnterminatedClause == [][C27_UnterminatedStep]_vars

\* C28: as long as the calls of remove, set_min, set_max and fix have left a
\* value in a BitSetDomain, no call has aborted, size() is the number of the
\* values left, min() and max() are the smallest and the greatest of them, and
\* fixed_value() is Some(v) exactly when v is the only one left.
C28_BitSetViews ==
    (pc \in {"bitset", "done"} /\ inst = -11 /\ given # {}) =>
        /\ result # "Panic"
        /\ solver.size = Cardinality(given)
        /\ solver.lower_bound \in given /\ \A x \in given : solver.lower_bound <= x
        /\ solver.upper_bound \in given /\ \A x \in given : x <= solver.upper_bound
        /\ \A v \in 0..BitMax : (fixed_value(solver) = <<v>>) = (given = {v})

---------------------------------------------------------------------------
(* Properties of the propagator watches. *)

\* The literal whose watch list holds the watch of a registration.
ListLit(reg) == IF reg.event = "FixedTrue" THEN reg.lit ELSE not(reg.lit)

\* The literals a propagate_propositional that returned Ok has visited.
Visited == {solver'.trail[i] : i \in (solver.next_propagation_idx + 1)..Len(solver'.trail)}

\* C29: a propagator watch stays registered for the whole search: every time
\* propagate_propositional visits the assignment that falsifies the literal
\* whose list the watch was put on, also after backtracking and re-assignment,
\* the propagator is in the queue when the call returns.
C29_WatchStep ==
    (Called("propositional") /\ conflict' = 0) =>
        \A n \in 1..Len(posted) :
            not(ListLit(posted[n])) \in Visited => posted[n].id \in Range(solver'.queue)

C29_WatchStays == [][C29_WatchStep]_vars

\* C30: a propagator that registered x for FixedTrue is in the queue after a
\* propagate_propositional that visited the assignment of x to true, and one
\* that registered x for FixedFalse after the assignment of x to false.
C30_EventStep ==
    (Called("propositional") /\ conflict' = 0) =>
        \A n \in 1..Len(posted) :
            LET reg == posted[n] IN
            (IF reg.event = "FixedTrue" THEN reg.lit ELSE not(reg.lit)) \in Visited
                => reg.id \in Range(solver'.queue)

C30_EventEnqueues == [][C30_EventStep]_vars

---------------------------------------------------------------------------
(* Properties of the clause watches and of the learned clauses. *)

\* How often the watch of the clause cref is in the watch list of lit.
WatchCount(s, lit, cref) ==
    Cardinality({i \in 1..Len(s.watch_list[lit + 1]) :
                    s.watch_list[lit + 1][i] = WatchClause(cref)})

\* C31: after propagate_propositional has returned, with Ok or with a
\* conflict, every original and every learned clause is watched exactly once
\* by each of the two distinct literals at its positions 0 and 1 and by no
\* other literal.
C31_ClauseWatches ==
    solver.panic = "none" =>
        \A cref \in 1..Len(solver.clauses) :
            solver.kinds[cref] \in {"original", "learned"} =>
                /\ solver.clauses[cref][1] # solver.clauses[cref][2]
                /\ \A lit \in 0..(2 * solver.next_var_code - 1) :
                      WatchCount(solver, lit, cref) =
                          IF lit \in {solver.clauses[cref][1], solver.clauses[cref][2]}
                          THEN 1 ELSE 0

\* A conflict interrupted the traversal of a watch list: watches were copied
\* back behind the watch of the conflicting clause, and a learned clause is
\* stored.
C31_Witness ==
    /\ pc = "propagated"
    /\ conflict # 0
    /\ solver.panic = "none"
    /\ \E cref \in 1..Len(solver.clauses) : solver.kinds[cref] = "learned"
    /\ \E lit \in 0..(2 * solver.next_var_code - 1) :
          /\ value(solver, lit) = "False"
          /\ \E i, j \in 1..Len(solver.watch_list[lit + 1]) :
                /\ i < j
                /\ solver.watch_list[lit + 1][i] = WatchClause(conflict)
                /\ solver.watch_list[lit + 1][j].kind = "Clause"

\* The literal an atom of an explanation stands for: for a bound of a domain,
\* the literal created for that bound.
AtomMeaning(atom, s) ==
    CASE atom.kind = "Lit" -> atom.v
      [] atom.kind = "AtLeast" -> BoundLit(s.domains[atom.d], atom.v)
      [] atom.kind = "AtMost" -> not(BoundLit(s.domains[atom.d], atom.v + 1))

\* The implication an explanation recorded as a reason stands for.
ExplanationClause(reason, s) ==
    <<reason.lit>> \o [i \in 1..Len(reason.expl) |-> not(AtomMeaning(reason.expl[i], s))]

\* The clauses a learned clause may be derived from: the stored clauses, the
\* explanations recorded as reasons of assigned variables, and the unit facts,
\* which are the literals of the trail below the first decision.
Premises(s) ==
    {s.clauses[cref] : cref \in 1..Len(s.clauses)}
    \cup {ExplanationClause(s.reasons[v + 1], s) :
            v \in {u \in 0..(s.next_var_code - 1) :
                      Assigned(s, u) /\ s.reasons[u + 1].kind = "Explanation"}}
    \cup {<<s.trail[i]>> : i \in 1..s.trail_delim[1]}

\* Every total assignment that satisfies the premises satisfies the clause.
Implied(s, clause) ==
    \A m \in SUBSET (0..(s.next_var_code - 1)) :
        (\A p \in Premises(s) : Satisfies(m, p)) => Satisfies(m, clause)

\* C32: the clause analyze returns, after minimization, is satisfied by every
\* total assignment that satisfies the stored clauses, the explanations
\* recorded as reasons and the unit facts.
C32_LearnedIsImplied ==
    pc = "analyzed" => Implied(solver, analysis.learned_clause)

\* The clause of analyze before minimize_clause.
Unminimized(s, cref) ==
    Resolve(AddLiterals([buffer |-> <<>>, count |-> 0, seen |-> {}, to_clear |-> <<>>,
                         brancher |-> s.brancher, panic |-> "none"],
                        s, s.clauses[cref], 1),
            s, Len(s.trail)).buffer

\* minimize_clause has removed a literal from a clause of three or more.
C32_Witness ==
    /\ pc = "analyzed"
    /\ Len(analysis.learned_clause) >= 2
    /\ Len(Unminimized(solver, conflict)) > Len(analysis.learned_clause)

---------------------------------------------------------------------------
(* Properties of the propagation fix-point and of the reasons. *)

\* C33: when propagate has returned Ok, the propagator queue is empty, every
\* literal of the trail has been visited by propagate_propositional, and the
\* propagate of every registered propagator reports no conflict, changes no
\* domain and enqueues no literal.
C33_Fixpoint ==
    (AtFixpoint /\ solver.panic = "none") =>
        /\ solver.queue = <<>>
        /\ solver.next_propagation_idx = Len(solver.trail)
        /\ \A id \in 1..Len(solver.propagators) :
              LET Idle(r) == /\ ~r.err
                             /\ r.s.domains = solver.domains
                             /\ r.s.trail = solver.trail
              IN Idle(propagator_propagate(solver, id))

\* The positions of the literal of variable v on the trail.
TrailPositions(s, v) == {i \in 1..Len(s.trail) : var(s.trail[i]) = v}

\* The literals of a reason other than the propagated one.
OtherLiterals(reason, s) ==
    IF reason.kind = "Clause" THEN Tail(s.clauses[reason.ref])
    ELSE Tail(ExplanationClause(reason, s))

\* C34: for every assigned variable whose reason is a clause or an
\* explanation, the negation of every other literal of the reason is on the
\* trail before the variable's own literal, and the recorded decision level of
\* every assigned variable is the level at which its literal was first
\* enqueued.
C34_ReasonPrecedes ==
    solver.panic = "none" =>
        \A v \in Vars :
            Assigned(solver, v) =>
                /\ TrailPositions(solver, v) # {}
                /\ \E first \in TrailPositions(solver, v) :
                      /\ \A p \in TrailPositions(solver, v) : first <= p
                      /\ solver.decided_at[v + 1] = LevelOfPos(solver, first)
                /\ solver.reasons[v + 1].kind # "Decision" =>
                      \E own \in TrailPositions(solver, v) :
                          \A l \in Range(OtherLiterals(solver.reasons[v + 1], solver)) :
                              \E i \in 1..(own - 1) : solver.trail[i] = not(l)

\* C35: when LinearBool::propagate reports the conflict {lit, explanation}, the clause
\* create_conflict_clause stores for the analysis has exactly the literal lit
\* and the negations of the atoms of the explanation, and each of its literals
\* is false under the assignment.
C35_ConflictClauseStep ==
    (Called("propagate") /\ inst = -5 /\ call'.err /\ result' # "Panic") =>
        /\ conflict' \in 1..Len(solver'.clauses)
        /\ Range(solver'.clauses[conflict'])
              = {call'.lit} \cup {not(as_lit(a, solver')) : a \in Range(call'.rexpl)}
        /\ \A l \in Range(solver'.clauses[conflict']) : value(solver', l) = "False"

C35_ConflictClause == [][C35_ConflictClauseStep]_vars

---------------------------------------------------------------------------
(* Properties of the bounds of the affine view. *)

\* C36: for a view y = a * x + offset with a < 0, min(y) is a * max(x) + offset
\* and max(y) is a * min(x) + offset, so that min(y) <= max(y); set_min(y, b)
\* lowers the upper bound of x to floor((b - offset) / a) and leaves its lower
\* bound, and set_max(y, b) raises the lower bound of x to
\* ceil((b - offset) / a) and leaves its upper bound; a bound that leaves no
\* value is a conflict.
C36_NegativeScaleStep ==
    (posted # <<>> /\ TheView.scale < 0) =>
        LET a == TheView.scale
            x == solver.domains[1]
            n == call'.v - TheView.offset
        IN /\ Called("bounds") =>
                /\ call'.rexpl[1] = a * x.upper_bound + TheView.offset
                /\ call'.rexpl[2] = a * x.lower_bound + TheView.offset
                /\ call'.rexpl[1] <= call'.rexpl[2]
           /\ Called("set_min") =>
                \A q \in (-(AffBound + AffOffset))..(AffBound + AffOffset) :
                    IsFloor(q, n, a) =>
                        IF q < x.lower_bound THEN result' = "Conflict"
                        ELSE /\ result' = "Ok"
                             /\ solver'.domains[1].upper_bound = Min2(q, x.upper_bound)
                             /\ solver'.domains[1].lower_bound = x.lower_bound
           /\ Called("set_max") =>
                \A q \in (-(AffBound + AffOffset))..(AffBound + AffOffset) :
                    IsCeil(q, n, a) =>
                        IF q > x.upper_bound THEN result' = "Conflict"
                        ELSE /\ result' = "Ok"
                             /\ solver'.domains[1].lower_bound = IF q > x.lower_bound THEN q
                                                                 ELSE x.lower_bound
                             /\ solver'.domains[1].upper_bound = x.upper_bound

C36_NegativeScale == [][C36_NegativeScaleStep]_vars

---------------------------------------------------------------------------
(* Properties of the run of solve. *)

\* The guards of the steps of SolveLoop: at every position of the loop one of
\* them is open.
LoopHasStep ==
    \/ pc \in {"loop", "analyzed", "backtracked"}
    \/ pc = "propagated" /\ conflict = 0
    \/ pc = "propagated" /\ conflict # 0 /\ solver.current_depth = 0
    \/ /\ pc = "propagated" /\ conflict # 0 /\ solver.current_depth > 0
       /\ solver.brancher.activity_increment >= DecayDen

\* C37: under a terminator that never asks to stop, solve on a finite set of
\* clauses over finitely many variables eventually returns Satisfiable or
\* Unsatisfiable.
C37_SolveReturns ==
    /\ [](pc \in LoopPcs => LoopHasStep)
    /\ (pc = "loop") ~> (pc = "done" /\ result \in {"Satisfiable", "Unsatisfiable"})

\* solve has returned after it learned a clause.
C37_Witness ==
    /\ pc = "done"
    /\ result \in {"Satisfiable", "Unsatisfiable"}
    /\ \E c \in 1..Len(solver.clauses) : solver.kinds[c] = "learned"

---------------------------------------------------------------------------
(* Properties of the VSIDS brancher. *)

\* C38: in every state of the solver, so after every sequence of on_new_var,
\* on_variable_activated, on_variable_unassigned and next_decision the solver
\* makes, the heap and the position index of the brancher agree (position[v]
\* is i exactly when heap[i] is v, and no variable is in the heap twice), and
\* next_decision returns the positive literal of an unassigned variable whose
\* activity is maximal among the unassigned variables.
C38_HeapAndDecision ==
    LET b == solver.brancher
        d == next_decision(solver.brancher, solver)
    IN /\ Len(b.position) = solver.next_var_code
       /\ \A v \in Vars, i \in 0..(Len(b.heap) - 1) :
             b.position[v + 1] = i <=> b.heap[i + 1] = v
       /\ \A v \in Vars : b.position[v + 1] \in (-1)..(Len(b.heap) - 1)
       /\ \A i, j \in 1..Len(b.heap) : i # j => b.heap[i] # b.heap[j]
       /\ d.lit # -1 =>
             /\ d.lit = positive(var(d.lit))
             /\ is_unassigned(solver, d.lit)
             /\ \A u \in Vars :
                   is_unassigned(solver, positive(u)) =>
                       b.activities[u + 1] <= b.activities[var(d.lit) + 1]

\* next_decision passes over assigned variables and returns a variable of a
\* greater activity than another unassigned variable of a smaller number.
C38_Witness ==
    LET b == solver.brancher
        d == next_decision(solver.brancher, solver)
    IN /\ pc = "propagated"
       /\ conflict = 0
       /\ d.lit # -1
       /\ Len(d.brancher.heap) + 2 <= Len(b.heap)
       /\ \E u \in Vars :
             /\ u < var(d.lit)
             /\ is_unassigned(solver, positive(u))
             /\ b.activities[u + 1] < b.activities[var(d.lit) + 1]

\* C39: the activity increment starts at 1 and brancher.on_conflict() divides
\* it by the decay factor d, 0 < d < 1, so that the increment after a conflict
\* is the increment before it divided by d and strictly greater: a variable
\* activated in a later conflict receives more than one activated earlier.
C39_IncrementStep ==
    /\ pc = "setup" => solver.brancher.activity_increment = ActivityOne
    /\ (pc = "backtracked" /\ pc' = "loop") =>
          /\ solver'.brancher.activity_increment
                = solver.brancher.activity_increment * DecayDen
          /\ solver'.brancher.activity_increment > solver.brancher.activity_increment

C39_IncrementGrows == [][C39_IncrementStep]_vars

---------------------------------------------------------------------------
(* Properties of the constraint solver of limiga. *)

\* The posted not_eq constraints have a solution over the domains the
\* variables were created with.
CpHasSolution ==
    \E f \in [1..Len(given) -> 0..CpMaxValue] :
        /\ \A v \in 1..Len(given) : given[v][1] <= f[v] /\ f[v] <= given[v][2]
        /\ \A n \in 1..Len(posted) : f[posted[n].x] # f[posted[n].y]

\* C40: Solver::solve returns Satisfiable whenever the posted constraints have
\* a solution, also when propagation has fixed every variable and the brancher
\* returns None on its first call, and it returns Unsatisfiable only when there
\* is no solution.
C40_SolveOutcome ==
    (inst = -15 /\ pc = "done" /\ call.op = "solve") =>
        /\ CpHasSolution => result = "Satisfiable"
        /\ result = "Unsatisfiable" => ~CpHasSolution

====
